---- MODULE Spec2Model ----
(***************************************************************************)
(* Model of hasansino/commit: the orchestration workflow Service.Execute   *)
(* (pkg/commit/commit.go), the git workspace engine it drives              *)
(* (pkg/commit/git.go, git_gpg.go, git_states.go) and the provider         *)
(* aggregation engine (aiService.GenerateCommitMessages).                  *)
(*                                                                         *)
(* Strings are sequences of one-character strings, so that trimming and    *)
(* emptiness are computed and not assumed.                                 *)
(***************************************************************************)
EXTENDS Naturals, Integers, Sequences, FiniteSets, TLC

(* ------------------------------ bounds --------------------------------- *)
\* most transform modules registered on the service
MaxModules == 2
\* most providers a result mapping handed to Execute is keyed by
MaxProviders == 1
\* most providers selected in one GenerateCommitMessages call
MaxSelected == 2

\* most bytes a rendering of the staged diff has, and the largest ceiling
MaxDiffBytes == 2
\* the width in bits of the program's int, scaled down from 64
IntBits == 5

(* ------------------------------ strings -------------------------------- *)
SP == " "
NL == "\n"
WhiteSpace == {SP, NL, "\t", "\r"}

\* the commit messages a provider, the UI or a module may hand back: empty,
\* plain, blank, and with leading or trailing white space
Msgs == {<<>>, <<"a">>, <<SP>>, <<NL>>, <<"a", NL>>, <<SP, "a">>}
\* the messages a result mapping may hold: empty, plain, blank, with a newline
ProviderMsgs == {<<>>, <<"a">>, <<SP>>, <<"a", NL>>}
\* the messages a transform module may hand back: empty, plain, and changed
ModuleOutputs == {<<>>, <<"a">>, <<SP, "a">>}
\* the staged diff texts the repository may hand back
Diffs == {<<>>, <<SP>>, <<NL, SP>>, <<SP, "d", NL>>}

RECURSIVE TrimLeft(_, _)
TrimLeft(s, cutset) ==
    IF s # <<>> /\ Head(s) \in cutset THEN TrimLeft(Tail(s), cutset) ELSE s

RECURSIVE TrimRight(_, _)
TrimRight(s, cutset) ==
    IF s # <<>> /\ s[Len(s)] \in cutset
    THEN TrimRight(SubSeq(s, 1, Len(s) - 1), cutset)
    ELSE s

\* strings.Trim(s, cutset)
Trim(s, cutset) == TrimRight(TrimLeft(s, cutset), cutset)

\* strings.TrimSpace(s)
TrimSpace(s) == Trim(s, WhiteSpace)

(* --------------------------- program constants -------------------------- *)
RepoStateNormal == "normal"
RepoStates == {"normal", "merging", "rebasing", "cherry-picking", "reverting", "bisecting"}
TagKinds == {"", "major", "minor", "patch"}

\* the settings Validate() accepts, restricted to the fields Execute branches on
SettingsSpace == [Auto : BOOLEAN, DryRun : BOOLEAN, Push : BOOLEAN, Tag : TagKinds]

(* -------------------------------- state --------------------------------- *)
VARIABLES
    pc,             \* position of Service.Execute / processCommitMessages
    calls,          \* the collaborator calls made so far, in order
    ret,            \* "running", "nil", or the error Execute returned
    settings,       \* s.settings
    numModules,     \* len(s.modules)
    obs,            \* what the read-only collaborator calls returned
    messages,       \* the provider -> message mapping in hand
    commitMessage,  \* the working commit message
    modIdx,         \* index of the next module of the transform loop
    lastModule,     \* what the module that ran last returned, and on which message
    repo,           \* the repository: index, commits, pushes, tags
    gpc,            \* position of aiService.GenerateCommitMessages
    gFirst,         \* its firstOnly argument
    gSelected,      \* the filtered provider set
    gCtx,           \* the caller's context: "live" or "cancelled"
    gDeadline,      \* the shared timeout: "pending" or "expired"
    gCancelFn,      \* whether the call has cancelled its own tasks
    gTask,          \* per selected provider: its task's status
    gAsk,           \* per selected provider: how often its Ask was invoked
    gResults,       \* the result mapping
    gRet,           \* "running", "nil", or the error returned
    fpc,            \* a git operation studied on its own: "idle", "ready", "returned"
    fIn,            \* the arguments and the environment it is called in
    fOut            \* what it returned and what it left behind

execVars == <<pc, calls, ret, settings, numModules, obs, messages, commitMessage,
              modIdx, lastModule, repo>>
genVars == <<gpc, gFirst, gSelected, gCtx, gDeadline, gCancelFn, gTask, gAsk, gResults, gRet>>
fnVars == <<fpc, fIn, fOut>>
vars == <<execVars, genVars, fnVars>>

(* ------------------------------ call log -------------------------------- *)
\* one collaborator call: its name, its arguments (each a string) and whether
\* it returned without error
Call(op, args, ok) == [op |-> op, args |-> args, ok |-> ok]
Ops(log) == [i \in 1..Len(log) |-> log[i].op]
Called(op) == \E i \in 1..Len(calls) : calls[i].op = op
CalledOk(op) == \E i \in 1..Len(calls) : calls[i].op = op /\ calls[i].ok

\* the settings fields handed through to the collaborators unchanged
ArgExclude == <<"ExcludePatterns">>
ArgInclude == <<"IncludePatterns">>
ArgGlobalIgnore == <<"UseGlobalGitignore">>
ArgMaxDiff == <<"MaxDiffSizeBytes">>
ArgBranch == <<"branch">>
FileLists == {<<>>, <<"f1", "f2">>}
\* the provider names a result mapping of the aggregation engine may be keyed by
Providers == 1..MaxProviders
MessageMaps == UNION {[S -> ProviderMsgs] : S \in SUBSET Providers}
NoMessages == [p \in {} |-> <<>>]
Range(f) == {f[x] : x \in DOMAIN f}
Checkboxes == [DryRun : BOOLEAN, Push : BOOLEAN, Major : BOOLEAN, Minor : BOOLEAN, Patch : BOOLEAN]
NoModule == [ran |-> FALSE, input |-> <<>>, output |-> <<>>, changed |-> FALSE, failed |-> FALSE]
Tags == {<<>>, <<"v1.0.0">>}
NewTags == {<<"v1.0.1">>}

ObsInit ==
    [numProviders |-> -1, isRepo |-> "unset", repoState |-> "unset", repoStateErr |-> FALSE,
     hasConflicts |-> "unset", conflictsErr |-> FALSE,
     staged |-> "unset", files |-> <<>>, diffRead |-> "unset", diff |-> <<>>,
     generated |-> "unset", finalized |-> "unset", config |-> "unset", commitErr |-> "",
     latestTag |-> <<>>, newTag |-> <<>>]

RepoInit ==
    [unstaged |-> FALSE, index |-> <<"old">>, commits |-> 0, tier |-> "none",
     pushes |-> 0, tags |-> 0, tagPushes |-> 0]

BoolStr(b) == IF b THEN "true" ELSE "false"

(* ------------------------- Service.Execute ------------------------------ *)
\* the checks Execute makes on what the collaborators return; each gives the
\* error Execute returns, or "" to go on
CheckProviders(n) == IF n = 0 THEN "no api keys found in environment" ELSE ""

CheckRepository(isRepo) == IF ~isRepo THEN "not a git repository" ELSE ""

CheckRepoState(state, failed) ==
    IF failed THEN "failed to get repository state"
    ELSE IF state # RepoStateNormal THEN "repository is in non-normal state, cannot create commit"
    ELSE ""

\* mutant: conflicts that were found are not treated as a failed precondition
CheckConflictsErrorOnly(has, failed) ==
    IF failed THEN "failed to check for conflicts" ELSE ""

CheckConflicts(has, failed) ==
    IF failed THEN "failed to check for conflicts"
    ELSE IF has THEN "unresolved conflicts detected"
    ELSE ""

\* mutant: a failed unstage is ignored
CheckUnstageIgnored(failed) == ""

CheckUnstage(failed) == IF failed THEN "failed to unstage files" ELSE ""

\* after StageFiles: an error, the early nil return on nothing staged, or go on
CheckStaged(files, failed) ==
    IF failed THEN "failed to stage files"
    ELSE IF Len(files) = 0 THEN "nil"
    ELSE ""

\* mutant: only the empty string counts as an empty diff
CheckDiffUntrimmed(diff, failed) ==
    IF failed THEN "failed to get diff"
    ELSE IF diff = <<>> THEN "nil"
    ELSE ""

\* after GetStagedDiff: an error, the early nil return on a blank diff, or go on
CheckDiff(diff, failed) ==
    IF failed THEN "failed to get diff"
    ELSE IF TrimSpace(diff) = <<>> THEN "nil"
    ELSE ""

\* leave Execute with result r, or move on to position next when r = ""
Step(r, next) ==
    /\ pc' = IF r = "" THEN next ELSE "done"
    /\ ret' = IF r = "" THEN ret ELSE r

NumProviders ==
    /\ pc = "start"
    /\ \E n \in 0..MaxProviders :
        /\ calls' = Append(calls, Call("NumProviders", <<>>, TRUE))
        /\ obs' = [obs EXCEPT !.numProviders = n]
        /\ Step(CheckProviders(n), "isRepo")
    /\ UNCHANGED <<genVars, fnVars>>
    /\ UNCHANGED <<settings, numModules, messages, commitMessage, modIdx, lastModule, repo>>

IsGitRepository ==
    /\ pc = "isRepo"
    /\ \E isRepo \in BOOLEAN :
        /\ calls' = Append(calls, Call("IsGitRepository", <<>>, TRUE))
        /\ obs' = [obs EXCEPT !.isRepo = BoolStr(isRepo)]
        /\ Step(CheckRepository(isRepo), "repoState")
    /\ UNCHANGED <<genVars, fnVars>>
    /\ UNCHANGED <<settings, numModules, messages, commitMessage, modIdx, lastModule, repo>>

GetRepoState ==
    /\ pc = "repoState"
    /\ \E state \in RepoStates, failed \in BOOLEAN :
        /\ calls' = Append(calls, Call("GetRepoState", <<>>, ~failed))
        /\ obs' = [obs EXCEPT !.repoState = IF failed THEN RepoStateNormal ELSE state,
                              !.repoStateErr = failed]
        /\ Step(CheckRepoState(state, failed), "conflicts")
    /\ UNCHANGED <<genVars, fnVars>>
    /\ UNCHANGED <<settings, numModules, messages, commitMessage, modIdx, lastModule, repo>>

HasConflicts ==
    /\ pc = "conflicts"
    /\ \E has \in BOOLEAN, failed \in BOOLEAN :
        /\ calls' = Append(calls, Call("HasConflicts", <<>>, ~failed))
        /\ obs' = [obs EXCEPT !.hasConflicts = BoolStr(has /\ ~failed),
                              !.conflictsErr = failed]
        /\ Step(CheckConflicts(has /\ ~failed, failed), "unstage")
    /\ UNCHANGED <<genVars, fnVars>>
    /\ UNCHANGED <<settings, numModules, messages, commitMessage, modIdx, lastModule, repo>>

UnstageAll ==
    /\ pc = "unstage"
    /\ \E failed \in BOOLEAN :
        /\ calls' = Append(calls, Call("UnstageAll", <<>>, ~failed))
        /\ repo' = IF failed THEN repo ELSE [repo EXCEPT !.unstaged = TRUE, !.index = <<>>]
        /\ Step(CheckUnstage(failed), "stage")
    /\ UNCHANGED <<genVars, fnVars>>
    /\ UNCHANGED <<settings, numModules, obs, messages, commitMessage, modIdx, lastModule>>

StageFiles ==
    /\ pc = "stage"
    /\ \E files \in FileLists, failed \in BOOLEAN :
        LET got == IF failed THEN <<>> ELSE files IN
        /\ calls' = Append(calls,
                Call("StageFiles", <<ArgExclude, ArgInclude, ArgGlobalIgnore>>, ~failed))
        /\ obs' = [obs EXCEPT !.staged = BoolStr(~failed), !.files = got]
        /\ repo' = IF failed THEN repo ELSE [repo EXCEPT !.index = got]
        /\ Step(CheckStaged(got, failed), "diff")
    /\ UNCHANGED <<genVars, fnVars>>
    /\ UNCHANGED <<settings, numModules, messages, commitMessage, modIdx, lastModule>>

GetStagedDiff ==
    /\ pc = "diff"
    /\ \E diff \in Diffs, failed \in BOOLEAN :
        LET got == IF failed THEN <<>> ELSE diff IN
        /\ calls' = Append(calls, Call("GetStagedDiff", <<ArgMaxDiff>>, ~failed))
        /\ obs' = [obs EXCEPT !.diffRead = BoolStr(~failed), !.diff = got]
        /\ Step(CheckDiff(got, failed), "branch")
    /\ UNCHANGED <<genVars, fnVars>>
    /\ UNCHANGED <<settings, numModules, messages, commitMessage, modIdx, lastModule, repo>>

GetCurrentBranch ==
    /\ pc = "branch"
    /\ \E failed \in BOOLEAN :
        /\ calls' = Append(calls, Call("GetCurrentBranch", <<>>, ~failed))
        /\ Step(IF failed THEN "failed to get current branch" ELSE "", "generate")
    /\ UNCHANGED <<genVars, fnVars>>
    /\ UNCHANGED <<settings, numModules, obs, messages, commitMessage, modIdx, lastModule, repo>>

GenerateCommitMessagesCall ==
    /\ pc = "generate"
    /\ \E msgs \in MessageMaps, failed \in BOOLEAN :
        LET got == IF failed THEN NoMessages ELSE msgs IN
        /\ calls' = Append(calls,
                Call("GenerateCommitMessages", <<obs.diff, ArgBranch, obs.files>>, ~failed))
        /\ messages' = got
        /\ obs' = [obs EXCEPT !.generated =
                        IF failed THEN "error"
                        ELSE IF DOMAIN got = {} THEN "empty" ELSE "nonempty"]
        /\ Step(IF failed THEN "failed to generate suggestions" ELSE "", "select")
    /\ UNCHANGED <<genVars, fnVars>>
    /\ UNCHANGED <<settings, numModules, commitMessage, modIdx, lastModule, repo>>

(* --------------------- Service.processCommitMessages -------------------- *)
\* getRandomMessage: the message of whichever entry the map iteration yields
\* first, "" for an empty map
RandomMessages(m) == IF DOMAIN m = {} THEN {<<>>} ELSE Range(m)

\* the tag kind the checkboxes leave in the settings: the last assignment wins
TagOfCheckboxes(cb) ==
    IF cb.Patch THEN "patch"
    ELSE IF cb.Minor THEN "minor"
    ELSE IF cb.Major THEN "major"
    ELSE ""

CheckChosen(msg) == IF Len(msg) = 0 THEN "no commit message provided" ELSE ""

\* auto mode: pick any message of the mapping
SelectAuto ==
    /\ pc = "select"
    /\ settings.Auto
    /\ \E msg \in RandomMessages(messages) :
        /\ commitMessage' = msg
        /\ Step(IF msg = <<>> THEN "no valid suggestions available for auto-commit"
                ELSE CheckChosen(msg), "modules")
    /\ messages' = NoMessages     \* the mapping is not read again
    /\ modIdx' = 1
    /\ UNCHANGED <<genVars, fnVars>>
    /\ UNCHANGED <<calls, settings, numModules, obs, lastModule, repo>>

\* interactive mode: the UI hands back a choice and the checkbox values, is
\* cancelled by the user, or fails
SelectInteractive ==
    /\ pc = "select"
    /\ ~settings.Auto
    /\ \E outcome \in {"ok", "canceled", "failed"} :
        /\ calls' = Append(calls, Call("RenderInteractiveUI", <<>>, outcome = "ok"))
        /\ IF outcome = "ok"
           THEN \E msg \in Msgs, cb \in Checkboxes :
                /\ commitMessage' = msg
                /\ settings' = [settings EXCEPT !.DryRun = cb.DryRun, !.Push = cb.Push,
                                                !.Tag = TagOfCheckboxes(cb)]
                /\ Step(CheckChosen(msg), "modules")
           ELSE /\ UNCHANGED <<commitMessage, settings>>
                /\ Step(IF outcome = "canceled" THEN "nil"
                        ELSE "failed to run interactive ui", "modules")
    /\ messages' = NoMessages     \* the mapping is not read again
    /\ modIdx' = 1
    /\ UNCHANGED <<genVars, fnVars>>
    /\ UNCHANGED <<numModules, obs, lastModule, repo>>

\* the module at position i of s.modules
ModuleName(i) == <<"module", i>>

\* mutant: the output of a module that reported an error is taken all the same
ApplyModuleDespiteError(msg, output, workDone, failed) ==
    IF ~workDone THEN msg ELSE output

\* the working message after one module returned (output, workDone, err)
ApplyModule(msg, output, workDone, failed) ==
    IF failed THEN msg
    ELSE IF ~workDone THEN msg
    ELSE output

RunModule ==
    /\ pc = "modules"
    /\ modIdx <= numModules
    /\ \E output \in ModuleOutputs, workDone \in BOOLEAN, failed \in BOOLEAN :
        /\ calls' = Append(calls, Call("TransformCommitMessage", <<ModuleName(modIdx), ArgBranch>>, ~failed))
        /\ lastModule' = [ran |-> TRUE, input |-> commitMessage, output |-> output,
                          changed |-> workDone, failed |-> failed]
        /\ commitMessage' = ApplyModule(commitMessage, output, workDone, failed)
    /\ modIdx' = modIdx + 1
    /\ UNCHANGED <<genVars, fnVars>>
    /\ UNCHANGED <<pc, ret, settings, numModules, obs, messages, repo>>

\* the message as committed: strings.Trim(msg, "\n"), then strings.TrimSpace
FinalMessage(msg) == TrimSpace(Trim(msg, {NL}))

\* mutant: asking for a push overrides the dry run
DryRunUnlessPush(s) == s.DryRun /\ ~s.Push

\* whether the mutating steps are suppressed: `if !s.settings.DryRun`
DryRunInEffect(s) == s.DryRun

\* dry run: report the final message, touch nothing
DryRunReport ==
    /\ pc = "modules"
    /\ modIdx > numModules
    /\ DryRunInEffect(settings)
    /\ obs' = [obs EXCEPT !.finalized = "dry"]
    /\ commitMessage' = FinalMessage(commitMessage)
    /\ lastModule' = NoModule
    /\ pc' = "done"
    /\ ret' = "nil"
    /\ UNCHANGED <<genVars, fnVars>>
    /\ UNCHANGED <<calls, settings, numModules, messages, modIdx, repo>>

(* ---------------- gitOperations.GetConfig / CreateCommit ---------------- *)
\* what `git config <key>` prints for the keys GetConfig reads ("" when unset)
RawConfigs ==
    [userName : {"", "n"}, userEmail : {"", "e"},
     gpgSign : {"", "true", "TRUE", "false"}, signingKey : {"", "k"}]

ToLower(v) == IF v = "TRUE" THEN "true" ELSE v

\* mutant: the e-mail address is not required
GetConfigNoEmailCheck(raw) ==
    IF raw.userName = "" THEN [err |-> "git user.name not configured", GPGSign |-> FALSE, SigningKey |-> ""]
    ELSE [err |-> "",
          GPGSign |-> (raw.gpgSign # "" /\ ToLower(raw.gpgSign) = "true"),
          SigningKey |-> raw.signingKey]

\* GetConfig: the error, or "" and the configuration read
GetConfig(raw) ==
    IF raw.userName = "" THEN [err |-> "git user.name not configured", GPGSign |-> FALSE, SigningKey |-> ""]
    ELSE IF raw.userEmail = "" THEN [err |-> "git user.email not configured", GPGSign |-> FALSE, SigningKey |-> ""]
    ELSE [err |-> "",
          GPGSign |-> (raw.gpgSign # "" /\ ToLower(raw.gpgSign) = "true"),
          SigningKey |-> raw.signingKey]

\* what loadKeyDirectly meets: the key loaded, the keyring not readable, no
\* entity matching the signing key, or a passphrase that does not decrypt it
KeyringResults == {"ok", "unreadable", "not found", "passphrase"}

\* what the environment answers during one CreateCommit
CommitEnvs ==
    [worktreeErr : BOOLEAN,   \* g.repo.Worktree() fails
     agent : BOOLEAN,         \* isGPGAgentAvailable
     signerOk : BOOLEAN,      \* createGPGSigner: the key is listed by gpg
     keyring : KeyringResults,
     commitErr : BOOLEAN]     \* worktree.Commit fails (signing included)

\* one CreateCommit's inputs as Execute meets them: an answer the code does
\* not ask for stays at a fixed value (GetConfig returns at the first missing
\* identity field, the agent is probed only when signing, and only the
\* selected tier is tried)
CommitInputs ==
    {in \in [raw : RawConfigs, env : CommitEnvs] :
        LET identity == in.raw.userName # "" /\ in.raw.userEmail # ""
            signing == identity /\ ~in.env.worktreeErr /\ ToLower(in.raw.gpgSign) = "true"
                       /\ in.raw.signingKey # ""
            tierOk == ~signing \/ (in.env.agent /\ in.env.signerOk)
                      \/ (~in.env.agent /\ in.env.keyring = "ok")
            keyMissing == ToLower(in.raw.gpgSign) = "true" /\ in.raw.signingKey = ""
        IN  /\ (in.raw.userName = "" => in.raw.userEmail = "")
            /\ (~identity => in.raw.gpgSign = "" /\ in.raw.signingKey = ""
                             /\ ~in.env.worktreeErr)
            /\ (~signing => ~in.env.agent /\ ~in.env.signerOk /\ in.env.keyring = "ok")
            /\ (signing /\ in.env.agent => in.env.keyring = "ok")
            /\ (signing /\ ~in.env.agent => ~in.env.signerOk)
            /\ (~identity \/ in.env.worktreeErr \/ keyMissing \/ ~tierOk => ~in.env.commitErr)}

\* createGPGSigner: the error, or "" with the signer
CreateGPGSigner(env) ==
    IF env.signerOk THEN "" ELSE "signing key not found or not available"

\* loadKeyDirectly: the error, or "" with the entity
LoadKeyDirectly(env) ==
    IF env.keyring = "unreadable" THEN "failed to access GPG keyring"
    ELSE IF env.keyring = "not found" THEN "signing key not found in keyring"
    ELSE IF env.keyring = "passphrase" THEN "failed to decrypt signing key"
    ELSE ""

SignResult(err, tier, tried) == [err |-> err, tier |-> tier, tried |-> tried]

\* mutant: when the agent's signer cannot be made the keyring is tried next
SignSetupWithFallback(env) ==
    IF env.agent /\ CreateGPGSigner(env) = "" THEN SignResult("", "agent", <<"agent">>)
    ELSE IF env.agent
        THEN SignResult(IF LoadKeyDirectly(env) # "" THEN "failed to load GPG signing key" ELSE "",
                        "direct", <<"agent", "direct">>)
    ELSE SignResult(IF LoadKeyDirectly(env) # "" THEN "failed to load GPG signing key" ELSE "",
                    "direct", <<"direct">>)

\* the signing branch of CreateCommit: the tier selected, the tiers tried, and
\* the error of the tier, "" when it is ready to sign
SignSetup(env) ==
    IF env.agent
    THEN SignResult(IF CreateGPGSigner(env) # "" THEN "failed to create GPG signer" ELSE "",
                    "agent", <<"agent">>)
    ELSE SignResult(IF LoadKeyDirectly(env) # "" THEN "failed to load GPG signing key" ELSE "",
                    "direct", <<"direct">>)

CommitResult(err, tier, tried, committed) ==
    [err |-> err, tier |-> tier, tried |-> tried, committed |-> committed]

\* CreateCommit: the error ("" for none), the signing tier selected, the tiers
\* tried, and whether a commit object was created
CreateCommitOutcome(raw, env) ==
    LET config == GetConfig(raw) IN
    IF config.err # "" THEN CommitResult(config.err, "none", <<>>, FALSE)
    ELSE IF env.worktreeErr THEN CommitResult("failed to get worktree", "none", <<>>, FALSE)
    ELSE IF ~config.GPGSign
        THEN IF env.commitErr THEN CommitResult("failed to create commit", "none", <<>>, FALSE)
             ELSE CommitResult("", "none", <<>>, TRUE)
    ELSE IF config.SigningKey = ""
        THEN CommitResult("commit.gpgsign=true but user.signingkey not configured",
                          "none", <<>>, FALSE)
    ELSE LET sign == SignSetup(env) IN
         IF sign.err # "" THEN CommitResult(sign.err, sign.tier, sign.tried, FALSE)
         ELSE IF env.commitErr
            THEN CommitResult("failed to create commit", sign.tier, sign.tried, FALSE)
         ELSE CommitResult("", sign.tier, sign.tried, TRUE)

\* the configuration as found: which of the mandatory settings is missing
ConfigKind(raw) ==
    IF raw.userName = "" \/ raw.userEmail = "" THEN "no identity"
    ELSE IF raw.gpgSign \in {"true", "TRUE"} /\ raw.signingKey = "" THEN "no signing key"
    ELSE "ok"

\* where processCommitMessages goes after each mutating step that succeeded
AfterCommit(s) == IF s.Push THEN "push" ELSE IF s.Tag # "" THEN "latestTag" ELSE "done"
AfterPush(s) == IF s.Tag # "" THEN "latestTag" ELSE "done"
\* mutant: the tag is pushed whether or not Push is set
AfterCreateTagAlwaysPush(s) == "pushTag"

AfterCreateTag(s) == IF s.Push THEN "pushTag" ELSE "done"

\* a mutating step returned: leave with the error, or go on to next (returning
\* nil when next is the end)
After(err, next) ==
    /\ pc' = IF err # "" THEN "done" ELSE next
    /\ ret' = IF err # "" THEN err ELSE IF next = "done" THEN "nil" ELSE ret

CreateCommit ==
    /\ pc = "modules"
    /\ modIdx > numModules
    /\ ~DryRunInEffect(settings)
    /\ \E in \in CommitInputs :
        LET message == FinalMessage(commitMessage)
            out == CreateCommitOutcome(in.raw, in.env) IN
        /\ commitMessage' = message
        /\ calls' = Append(calls, Call("CreateCommit", <<message>>, out.err = ""))
        /\ obs' = [obs EXCEPT !.finalized = "commit", !.config = ConfigKind(in.raw),
                              !.commitErr = out.err]
        /\ repo' = IF out.committed
                   THEN [repo EXCEPT !.commits = @ + 1, !.tier = out.tier, !.index = <<>>]
                   ELSE repo
        /\ After(IF out.err # "" THEN "failed to create commit" ELSE "", AfterCommit(settings))
    /\ lastModule' = NoModule
    /\ UNCHANGED <<genVars, fnVars>>
    /\ UNCHANGED <<settings, numModules, messages, modIdx>>

Push ==
    /\ pc = "push"
    /\ \E failed \in BOOLEAN :
        /\ calls' = Append(calls, Call("Push", <<>>, ~failed))
        /\ repo' = IF failed THEN repo ELSE [repo EXCEPT !.pushes = @ + 1]
        /\ After(IF failed THEN "failed to push" ELSE "", AfterPush(settings))
    /\ UNCHANGED <<genVars, fnVars>>
    /\ UNCHANGED <<settings, numModules, obs, messages, commitMessage, modIdx, lastModule>>

GetLatestTag ==
    /\ pc = "latestTag"
    /\ \E tag \in Tags, failed \in BOOLEAN :
        /\ calls' = Append(calls, Call("GetLatestTag", <<>>, ~failed))
        /\ obs' = [obs EXCEPT !.latestTag = IF failed THEN <<>> ELSE tag]
        /\ After(IF failed THEN "failed to get latest tag" ELSE "", "incVersion")
    /\ UNCHANGED <<genVars, fnVars>>
    /\ UNCHANGED <<settings, numModules, messages, commitMessage, modIdx, lastModule, repo>>

IncrementVersionCall ==
    /\ pc = "incVersion"
    /\ \E tag \in NewTags, failed \in BOOLEAN :
        /\ calls' = Append(calls,
                Call("IncrementVersion", <<obs.latestTag, <<settings.Tag>>>>, ~failed))
        /\ obs' = [obs EXCEPT !.newTag = IF failed THEN <<>> ELSE tag]
        /\ After(IF failed THEN "failed to increment version" ELSE "", "createTag")
    /\ UNCHANGED <<genVars, fnVars>>
    /\ UNCHANGED <<settings, numModules, messages, commitMessage, modIdx, lastModule, repo>>

CreateTag ==
    /\ pc = "createTag"
    /\ \E failed \in BOOLEAN :
        /\ calls' = Append(calls, Call("CreateTag", <<obs.newTag, commitMessage>>, ~failed))
        /\ repo' = IF failed THEN repo ELSE [repo EXCEPT !.tags = @ + 1]
        /\ After(IF failed THEN "failed to create tag" ELSE "", AfterCreateTag(settings))
    /\ UNCHANGED <<genVars, fnVars>>
    /\ UNCHANGED <<settings, numModules, obs, messages, commitMessage, modIdx, lastModule>>

PushTag ==
    /\ pc = "pushTag"
    /\ \E failed \in BOOLEAN :
        /\ calls' = Append(calls, Call("PushTag", <<obs.newTag>>, ~failed))
        /\ repo' = IF failed THEN repo ELSE [repo EXCEPT !.tagPushes = @ + 1]
        /\ After(IF failed THEN "failed to push tag" ELSE "", "done")
    /\ UNCHANGED <<genVars, fnVars>>
    /\ UNCHANGED <<settings, numModules, obs, messages, commitMessage, modIdx, lastModule>>

(* ------------------------- the workflow as a whole ---------------------- *)
NoTasks == [p \in {} |-> [status |-> "running", live |-> TRUE]]
NoAsks == [p \in {} |-> 0]

GenIdle ==
    /\ gpc = "idle" /\ gFirst = FALSE /\ gSelected = {} /\ gCtx = "live"
    /\ gDeadline = "pending" /\ gCancelFn = FALSE
    /\ gTask = NoTasks /\ gAsk = NoAsks
    /\ gResults = NoMessages /\ gRet = "running"

FnIdle == fpc = "idle" /\ fIn = <<>> /\ fOut = <<>>

Init ==
    /\ pc = "start"
    /\ calls = <<>>
    /\ ret = "running"
    /\ settings \in SettingsSpace
    /\ numModules \in 0..MaxModules
    /\ obs = ObsInit
    /\ messages = NoMessages
    /\ commitMessage = <<>>
    /\ modIdx = 1
    /\ lastModule = NoModule
    /\ repo = RepoInit
    /\ GenIdle
    /\ FnIdle

Next ==
    \/ NumProviders \/ IsGitRepository \/ GetRepoState \/ HasConflicts
    \/ UnstageAll \/ StageFiles \/ GetStagedDiff \/ GetCurrentBranch
    \/ GenerateCommitMessagesCall \/ SelectAuto \/ SelectInteractive
    \/ RunModule \/ DryRunReport \/ CreateCommit \/ Push
    \/ GetLatestTag \/ IncrementVersionCall \/ CreateTag \/ PushTag

Spec == Init /\ [][Next]_vars

(* ----------------- aiService.GenerateCommitMessages --------------------- *)
\* the message provider p answers with
ProviderMessage(p) == <<"message of provider", p>>

Finished == {"ok", "empty", "failed", "cancelled", "timeout"}

\* whether the context handed to the tasks is done
TaskContextDone == gCtx = "cancelled" \/ gCancelFn \/ gDeadline = "expired"

\* mutant: an Ask started on a cancelled context can still answer
CanSucceedAlways(task) == TRUE

\* an Ask answers only if its context was live when it started; one that is
\* cancelled while under way may still win the race and answer
CanSucceed(task) == task.live

\* mutant: every answer is kept, also in first-result mode
RecordEveryResult(first, results, p) ==
    [q \in DOMAIN results \cup {p} |-> ProviderMessage(q)]

\* the mapping after provider p answered with a message: all-results mode
\* keeps every answer, first-result mode only the first
RecordResult(first, results, p) ==
    IF first /\ DOMAIN results # {} THEN results
    ELSE [q \in DOMAIN results \cup {p} |-> ProviderMessage(q)]

\* mutant: first-result mode returns once it has its answer
MayReturnOnFirstResult(first, tasks, results) ==
    \/ \A p \in DOMAIN tasks : tasks[p].status \in Finished
    \/ first /\ DOMAIN results # {}

\* the call returns when every task has ended
MayReturn(first, tasks, results) ==
    \A p \in DOMAIN tasks : tasks[p].status \in Finished

\* mutant: a round in which no provider answered is an error
ErrorIfNoneAnswered(tasks, results) ==
    IF DOMAIN results = {} THEN "all providers failed" ELSE "nil"

\* the error of a call that dispatched: provider failures are not surfaced
ReturnError(tasks, results) == "nil"

\* mutant: an empty selection is dispatched like any other
SelectionAlwaysAccepted(selected) == ""

\* the error a selection is refused with before anything is dispatched
SelectionError(selected) == IF selected = {} THEN "no ai providers available" ELSE ""

\* no provider matches the request: fail before anything is dispatched
GenReject ==
    /\ gpc = "called"
    /\ SelectionError(gSelected) # ""
    /\ gpc' = "returned"
    /\ gRet' = SelectionError(gSelected)
    /\ UNCHANGED <<gFirst, gSelected, gCtx, gDeadline, gCancelFn, gTask, gAsk, gResults>>
    /\ UNCHANGED <<execVars, fnVars>>

\* one task per selected provider, all started before anything else happens
\* (the dispatch loop has no suspension point)
GenDispatch ==
    /\ gpc = "called"
    /\ SelectionError(gSelected) = ""
    /\ gTask' = [p \in gSelected |-> [status |-> "running", live |-> gCtx = "live"]]
    /\ gAsk' = [p \in gSelected |-> 1]
    /\ gpc' = "collect"
    /\ UNCHANGED <<gFirst, gSelected, gCtx, gDeadline, gCancelFn, gResults, gRet>>
    /\ UNCHANGED <<execVars, fnVars>>

CallerCancel ==
    /\ gpc = "collect"
    /\ gCtx = "live"
    /\ gCtx' = "cancelled"
    /\ UNCHANGED <<gpc, gFirst, gSelected, gDeadline, gCancelFn, gTask, gAsk, gResults, gRet>>
    /\ UNCHANGED <<execVars, fnVars>>

DeadlineExpires ==
    /\ gpc = "collect"
    /\ gDeadline = "pending"
    /\ gDeadline' = "expired"
    /\ UNCHANGED <<gpc, gFirst, gSelected, gCtx, gCancelFn, gTask, gAsk, gResults, gRet>>
    /\ UNCHANGED <<execVars, fnVars>>

Running(p) == gpc = "collect" /\ p \in gSelected /\ gTask[p].status = "running"

\* Ask returns candidates: the first becomes the provider's message
AskSucceed ==
    \E p \in gSelected :
        /\ Running(p)
        /\ CanSucceed(gTask[p])
        /\ gTask' = [gTask EXCEPT ![p].status = "ok"]
        /\ gResults' = RecordResult(gFirst, gResults, p)
        /\ gCancelFn' = (gCancelFn \/ gFirst)
        /\ UNCHANGED <<gpc, gFirst, gSelected, gCtx, gDeadline, gAsk, gRet>>
        /\ UNCHANGED <<execVars, fnVars>>

\* Ask returns without error and without candidates
AskEmpty ==
    \E p \in gSelected :
        /\ Running(p)
        /\ CanSucceed(gTask[p])
        /\ gTask' = [gTask EXCEPT ![p].status = "empty"]
        /\ UNCHANGED <<gpc, gFirst, gSelected, gCtx, gDeadline, gCancelFn, gAsk, gResults, gRet>>
        /\ UNCHANGED <<execVars, fnVars>>

AskFail ==
    \E p \in gSelected :
        /\ Running(p)
        /\ gTask' = [gTask EXCEPT ![p].status = "failed"]
        /\ UNCHANGED <<gpc, gFirst, gSelected, gCtx, gDeadline, gCancelFn, gAsk, gResults, gRet>>
        /\ UNCHANGED <<execVars, fnVars>>

AskCancelled ==
    \E p \in gSelected :
        /\ Running(p)
        /\ gCtx = "cancelled" \/ gCancelFn
        /\ gTask' = [gTask EXCEPT ![p].status = "cancelled"]
        /\ UNCHANGED <<gpc, gFirst, gSelected, gCtx, gDeadline, gCancelFn, gAsk, gResults, gRet>>
        /\ UNCHANGED <<execVars, fnVars>>

\* mutant: the deadline does not end a task
DeadlineIgnored(deadline) == FALSE

\* whether the shared timeout ends the tasks still running
TimedOut(deadline) == deadline = "expired"

AskTimeout ==
    \E p \in gSelected :
        /\ Running(p)
        /\ TimedOut(gDeadline)
        /\ gTask' = [gTask EXCEPT ![p].status = "timeout"]
        /\ UNCHANGED <<gpc, gFirst, gSelected, gCtx, gDeadline, gCancelFn, gAsk, gResults, gRet>>
        /\ UNCHANGED <<execVars, fnVars>>

GenReturn ==
    /\ gpc = "collect"
    /\ MayReturn(gFirst, gTask, gResults)
    /\ gpc' = "returned"
    /\ gRet' = ReturnError(gTask, gResults)
    /\ gCancelFn' = TRUE
    /\ UNCHANGED <<gFirst, gSelected, gCtx, gDeadline, gTask, gAsk, gResults>>
    /\ UNCHANGED <<execVars, fnVars>>

ExecIdle ==
    /\ pc = "start" /\ calls = <<>> /\ ret = "running"
    /\ settings = [Auto |-> TRUE, DryRun |-> FALSE, Push |-> FALSE, Tag |-> ""]
    /\ numModules = 0 /\ obs = ObsInit /\ messages = NoMessages
    /\ commitMessage = <<>> /\ modIdx = 1 /\ lastModule = NoModule /\ repo = RepoInit

InitGen ==
    /\ ExecIdle
    /\ FnIdle
    /\ gpc = "called"
    /\ gFirst \in BOOLEAN
    /\ gSelected \in SUBSET (1..MaxSelected)
    /\ gCtx \in {"live", "cancelled"}
    /\ gDeadline = "pending"
    /\ gCancelFn = FALSE
    /\ gTask = NoTasks
    /\ gAsk = NoAsks
    /\ gResults = NoMessages
    /\ gRet = "running"

NextGen ==
    \/ GenReject \/ GenDispatch \/ CallerCancel \/ DeadlineExpires
    \/ AskSucceed \/ AskEmpty \/ AskFail \/ AskCancelled \/ AskTimeout
    \/ GenReturn

SpecGen == InitGen /\ [][NextGen]_vars

\* the call with its scheduling: the function body and the tasks get to run,
\* and the timer of the shared timeout fires; whether and when a provider
\* answers, and whether the caller cancels, is left open
SpecGenLive ==
    /\ SpecGen
    /\ WF_vars(GenReject) /\ WF_vars(GenDispatch) /\ WF_vars(GenReturn)
    /\ WF_vars(DeadlineExpires) /\ WF_vars(AskTimeout)

(* --------------------- paths, patterns and matching --------------------- *)
SEP == "/"

\* strings.Contains(s, sub)
Contains(s, sub) ==
    \E i \in 0..(Len(s) - Len(sub)) : SubSeq(s, i + 1, i + Len(sub)) = sub

\* strings.HasSuffix(s, suffix) and strings.HasPrefix(s, prefix)
HasSuffix(s, suffix) ==
    Len(s) >= Len(suffix) /\ SubSeq(s, Len(s) - Len(suffix) + 1, Len(s)) = suffix
HasPrefix(s, prefix) ==
    Len(s) >= Len(prefix) /\ SubSeq(s, 1, Len(prefix)) = prefix

\* strings.TrimSuffix(s, suffix)
TrimSuffix(s, suffix) ==
    IF HasSuffix(s, suffix) THEN SubSeq(s, 1, Len(s) - Len(suffix)) ELSE s

\* filepath.Base(path): the last element of the path, trailing separators
\* removed; "." for the empty path and "/" for one made of separators only
Base(path) ==
    IF path = <<>> THEN <<".">>
    ELSE LET p == TrimRight(path, {SEP})
             seps == {i \in 1..Len(p) : p[i] = SEP}
             last == IF seps = {} THEN 0 ELSE CHOOSE i \in seps : \A j \in seps : j <= i
         IN  IF p = <<>> THEN <<SEP>> ELSE SubSeq(p, last + 1, Len(p))

\* filepath.Match(pattern, name) for patterns of literals, "*" and "?": "*"
\* matches any sequence of non-separator characters, "?" one of them
RECURSIVE Match(_, _)
Match(pattern, name) ==
    IF pattern = <<>> THEN name = <<>>
    ELSE IF Head(pattern) = "*"
        THEN \/ Match(Tail(pattern), name)
             \/ name # <<>> /\ Head(name) # SEP /\ Match(pattern, Tail(name))
    ELSE /\ name # <<>>
         /\ IF Head(pattern) = "?" THEN Head(name) # SEP ELSE Head(pattern) = Head(name)
         /\ Match(Tail(pattern), Tail(name))

\* one global-ignore pattern against a file, as the first loop of
\* shouldExcludeFile tests it
GlobalPatternMatches(file, pattern) ==
    \/ HasSuffix(pattern, <<SEP>>)
       /\ Contains(file, TrimSuffix(pattern, <<SEP>>) \o <<SEP>>)
    \/ Contains(file, pattern)
    \/ Contains(Base(file), pattern)
    \/ Match(pattern, file)
    \/ Match(pattern, Base(file))

\* mutant: exclude patterns are matched against the whole path only
ShouldExcludeFilePathOnly(file, excludePatterns, globalPatterns) ==
    \/ \E i \in 1..Len(globalPatterns) : GlobalPatternMatches(file, globalPatterns[i])
    \/ \E i \in 1..Len(excludePatterns) :
            \/ Contains(file, excludePatterns[i])
            \/ Match(excludePatterns[i], file)

\* shouldExcludeFile: some global pattern or some exclude pattern matches
ShouldExcludeFile(file, excludePatterns, globalPatterns) ==
    \/ \E i \in 1..Len(globalPatterns) : GlobalPatternMatches(file, globalPatterns[i])
    \/ \E i \in 1..Len(excludePatterns) :
            \/ Contains(file, excludePatterns[i])
            \/ Contains(Base(file), excludePatterns[i])
            \/ Match(excludePatterns[i], file)
            \/ Match(excludePatterns[i], Base(file))

\* shouldIncludeFile: some pattern matches; false for an empty list
ShouldIncludeFile(file, patterns) ==
    \E i \in 1..Len(patterns) :
        \/ Contains(file, patterns[i])
        \/ Contains(Base(file), patterns[i])
        \/ Match(patterns[i], file)
        \/ Match(patterns[i], Base(file))

\* isSimpleGlobPattern: no separator, and a "*" or a "?"
IsSimpleGlobPattern(pattern) ==
    /\ ~Contains(pattern, <<SEP>>)
    /\ (Contains(pattern, <<"*">>) \/ Contains(pattern, <<"?">>))

(* ------------------------ gitOperations.StageFiles ---------------------- *)
\* the paths of the worktree: two at the top level, one in a directory
StatusPaths == {<<"a">>, <<"b", "c">>, <<"d", SEP, "a">>}
\* the worktree status of a path, as worktree.Status() reports it
FileStatuses == {"unmodified", "modified", "untracked", "deleted"}
\* the include and exclude pattern lists of the settings
PatternLists ==
    {<<>>, << <<"a">> >>, << <<"*">> >>, << <<"b", "*">> >>, << <<"d", SEP, "*">> >>,
     << <<"?">>, <<"c">> >>}
\* the global gitignore file: none configured, or its lines
GitignoreFiles ==
    {<<>>, << <<"#", "a">>, <<"!", "a">>, <<SP>> >>, << <<"d", SEP>> >>, << <<SP, "c">> >>}

\* parseGitignoreFile: the trimmed lines that are not blank, comments or
\* negations
KeepLine(line) ==
    LET t == TrimSpace(line) IN
    t # <<>> /\ ~HasPrefix(t, <<"#">>) /\ ~HasPrefix(t, <<"!">>)
RECURSIVE ParseGitignoreFile(_)
ParseGitignoreFile(lines) ==
    IF lines = <<>> THEN <<>>
    ELSE (IF KeepLine(Head(lines)) THEN <<TrimSpace(Head(lines))>> ELSE <<>>)
         \o ParseGitignoreFile(Tail(lines))

\* the paths of a status whose worktree status is not Unmodified
Changed(status) == {f \in DOMAIN status : status[f] # "unmodified"}

\* the first element of a path
FirstElem(path) ==
    LET seps == {i \in 1..Len(path) : path[i] = SEP}
        first == IF seps = {} THEN Len(path) + 1 ELSE CHOOSE i \in seps : \A j \in seps : i <= j
    IN  SubSeq(path, 1, first - 1)

\* what a staging path returns and what it adds to the index
Staged(list, added) == [list |-> list, added |-> added]

\* stageAllModified: AddWithOptions{All: true} adds every change
StageAllModified(status) == Staged(Changed(status), Changed(status))

\* stageWithGlob: the list holds the changed paths that filepath.Match accepts
\* as a whole; AddGlob adds the entries of the worktree root the pattern
\* matches, directories with all they hold
StageWithGlob(status, pattern) ==
    LET matchingFiles == {f \in Changed(status) : Match(pattern, f)} IN
    IF matchingFiles = {} THEN Staged({}, {})
    ELSE Staged(matchingFiles, {f \in Changed(status) : Match(pattern, FirstElem(f))})

\* stageFiltered: every changed path is tested on its own and added on its own
StageFiltered(status, excludePatterns, includePatterns, globalPatterns) ==
    LET filesToStage ==
            {f \in Changed(status) :
                /\ ~ShouldExcludeFile(f, excludePatterns, globalPatterns)
                /\ ~(Len(includePatterns) > 0 /\ ~ShouldIncludeFile(f, includePatterns))}
    IN  Staged(filesToStage, filesToStage)

\* which of the three staging paths StageFiles takes
StagePath(excludePatterns, includePatterns, globalPatterns) ==
    IF Len(excludePatterns) = 0 /\ Len(includePatterns) = 0 /\ Len(globalPatterns) = 0
        THEN "all"
    ELSE IF /\ Len(excludePatterns) = 0 /\ Len(includePatterns) = 1
            /\ Len(globalPatterns) = 0 /\ IsSimpleGlobPattern(includePatterns[1])
        THEN "glob"
    ELSE "filtered"

\* StageFiles on a worktree status: the path taken, the list returned and the
\* paths added to the index
StageFilesOutcome(in) ==
    LET globalPatterns ==
            IF in.useGlobalGitignore THEN ParseGitignoreFile(in.gitignore) ELSE <<>>
        path == StagePath(in.exclude, in.include, globalPatterns)
        staged == IF path = "all" THEN StageAllModified(in.status)
                  ELSE IF path = "glob" THEN StageWithGlob(in.status, in.include[1])
                  ELSE StageFiltered(in.status, in.exclude, in.include, globalPatterns)
    IN  [path |-> path, global |-> globalPatterns, list |-> staged.list, added |-> staged.added]

StageInputs ==
    [status : [StatusPaths -> FileStatuses], exclude : PatternLists, include : PatternLists,
     useGlobalGitignore : BOOLEAN, gitignore : GitignoreFiles]

InitStage ==
    /\ ExecIdle /\ GenIdle
    /\ fpc = "ready"
    /\ fIn \in {in \in StageInputs : ~in.useGlobalGitignore => in.gitignore = <<>>}
    /\ fOut = <<>>

StageFilesAlone ==
    /\ fpc = "ready"
    /\ fOut' = StageFilesOutcome(fIn)
    /\ fpc' = "returned"
    /\ UNCHANGED <<fIn, execVars, genVars>>

NextStage == StageFilesAlone

SpecStage == InitStage /\ [][NextStage]_vars

(* ---------------- shouldIncludeFile and shouldExcludeFile --------------- *)
\* paths and patterns the two functions are compared on: every way of
\* matching has a pair that only it accepts, and some pairs match in no way
MatchPaths ==
    StatusPaths \cup {<<>>, <<"c">>, <<"a", SEP>>, <<"d", SEP, "b", "c">>}
MatchPatterns ==
    {<<>>, <<"a">>, <<"c">>, <<".">>, <<"*">>, <<"?">>, <<"b", "*">>, <<"*", "c">>,
     <<SEP, "a">>, <<"d", SEP, "*">>}

InitMatch ==
    /\ ExecIdle /\ GenIdle
    /\ fpc = "ready"
    /\ fIn \in [file : MatchPaths, pattern : MatchPatterns]
    /\ fOut = <<>>

\* both functions on the same file and the same single pattern
ShouldMatchAlone ==
    /\ fpc = "ready"
    /\ fOut' = [include |-> ShouldIncludeFile(fIn.file, <<fIn.pattern>>),
                exclude |-> ShouldExcludeFile(fIn.file, <<fIn.pattern>>, <<>>)]
    /\ fpc' = "returned"
    /\ UNCHANGED <<fIn, execVars, genVars>>

NextMatch == ShouldMatchAlone

SpecMatch == InitMatch /\ [][NextMatch]_vars

(* ----------------------- gitOperations.GetStagedDiff -------------------- *)
contextLevels == <<5, 3, 2, 1, 0>>

\* the text `git diff -U<width>` prints when it is n bytes long: each byte
\* tells the rendering it belongs to and its place in it
Rendering(width, n) == [i \in 1..n |-> <<width, i>>]

\* no git invocation fails
NoFailure == [run |-> 0, kind |-> "none"]

\* one call's arguments and environment: the ceiling, the staged files listed
\* (or the listing failing), the size of the rendering at each width, and the
\* git diff invocation that fails, if any, with how it fails
DiffInputs ==
    {in \in [maxSizeBytes : 0..MaxDiffBytes,
             files : {"none", "some", "error"},
             size : [Range(contextLevels) -> 0..MaxDiffBytes + 1],
             fail : {NoFailure} \cup [run : 1..(Len(contextLevels) + 1),
                                      kind : {"exit status 128", "other"}]] :
        in.files # "some" =>
            in.fail = NoFailure /\ \A w \in Range(contextLevels) : in.size[w] = 0}

DiffResult(diff, err, runs) == [diff |-> diff, err |-> err, runs |-> runs]

\* a failed git diff: exit status 128 gives the empty diff, anything else the
\* error
DiffFailure(kind, runs) ==
    IF kind = "exit status 128" THEN DiffResult(<<>>, "", runs)
    ELSE DiffResult(<<>>, "failed to get staged diff", runs)

\* mutant: a rendering of exactly the ceiling's size is taken not to fit
FitsBelow(diff, maxSizeBytes) == Len(diff) < maxSizeBytes

\* `len(diff) <= maxSizeBytes`
Fits(diff, maxSizeBytes) == Len(diff) <= maxSizeBytes

\* mutant: the cut keeps one byte too many
TruncateOneMore(diff, maxSizeBytes) == SubSeq(diff, 1, maxSizeBytes + 1)

\* `diff[:maxSizeBytes]`
Truncate(diff, maxSizeBytes) == SubSeq(diff, 1, maxSizeBytes)

\* after the loop: one more rendering at width 0, cut to the ceiling if longer
LastResort(in, runs) ==
    LET run == Len(contextLevels) + 1
        diff == Rendering(0, in.size[0]) IN
    IF in.fail.run = run THEN DiffFailure(in.fail.kind, Append(runs, 0))
    ELSE IF Len(diff) > in.maxSizeBytes
        THEN DiffResult(Truncate(diff, in.maxSizeBytes), "", Append(runs, 0))
    ELSE DiffResult(diff, "", Append(runs, 0))

\* the loop over contextLevels from position k on, runs being the widths
\* rendered so far
RECURSIVE TryContextLevels(_, _, _)
TryContextLevels(in, k, runs) ==
    IF k > Len(contextLevels) THEN LastResort(in, runs)
    ELSE LET contextLevel == contextLevels[k]
             diff == Rendering(contextLevel, in.size[contextLevel]) IN
         IF in.fail.run = k THEN DiffFailure(in.fail.kind, Append(runs, contextLevel))
         ELSE IF Fits(diff, in.maxSizeBytes)
            THEN DiffResult(diff, "", Append(runs, contextLevel))
         ELSE TryContextLevels(in, k + 1, Append(runs, contextLevel))

\* GetStagedDiff: the diff, the error, and the widths rendered in order
GetStagedDiffOutcome(in) ==
    IF in.files = "error" THEN DiffResult(<<>>, "failed to get staged files", <<>>)
    ELSE IF in.files = "none" THEN DiffResult(<<>>, "", <<>>)
    ELSE TryContextLevels(in, 1, <<>>)

InitDiff ==
    /\ ExecIdle /\ GenIdle
    /\ fpc = "ready"
    /\ fIn \in DiffInputs
    /\ fOut = <<>>

GetStagedDiffAlone ==
    /\ fpc = "ready"
    /\ fOut' = GetStagedDiffOutcome(fIn)
    /\ fpc' = "returned"
    /\ UNCHANGED <<fIn, execVars, genVars>>

NextDiff == GetStagedDiffAlone

SpecDiff == InitDiff /\ [][NextDiff]_vars

(* ----------------------- gitOperations.GetRepoState --------------------- *)
\* file system paths are sequences of names and separators
Join(dir, name) == dir \o <<SEP, name>>

\* filepath.Dir(path): the path without its last element
Dir(path) ==
    LET seps == {i \in 1..Len(path) : path[i] = SEP}
        last == IF seps = {} THEN 0 ELSE CHOOSE i \in seps : \A j \in seps : j <= i
    IN  IF last = 0 THEN <<".">>
        ELSE IF last = 1 THEN <<SEP>>
        ELSE SubSeq(path, 1, last - 1)

\* the marker files and directories git keeps in a git directory while an
\* operation is under way
Markers ==
    {"rebase-merge", "rebase-apply", "MERGE_HEAD", "CHERRY_PICK_HEAD", "REVERT_HEAD",
     "BISECT_LOG"}

WorktreeRoot == <<SEP, "w">>

\* what <root>/.git is: a directory, nothing, or a file: one that cannot be
\* read, one with other content, or one that reads "gitdir: <path>" as git
\* writes it in a linked worktree, in a submodule, and in a linked worktree of
\* a repository that lies below a directory named worktrees
DotGitKinds ==
    {"dir", "missing", "file unreadable", "file other", "file worktree", "file submodule",
     "file nested"}

\* the path a .git file points to
GitDirPointer(kind) ==
    IF kind = "file worktree" THEN <<SEP, "r", SEP, ".git", SEP, "worktrees", SEP, "name">>
    ELSE IF kind = "file submodule" THEN <<SEP, "r", SEP, ".git", SEP, "modules", SEP, "sub">>
    ELSE <<SEP, "worktrees", SEP, "r", SEP, ".git", SEP, "worktrees", SEP, "name">>

HasPointer(kind) == kind \in {"file worktree", "file submodule", "file nested"}

\* the git directory of the worktree, where git keeps its markers: <root>/.git
\* if that is a directory, the directory a .git file points to otherwise
ActualGitDir(env) ==
    IF env.dotGit = "dir" THEN Join(WorktreeRoot, ".git")
    ELSE IF HasPointer(env.dotGit) THEN GitDirPointer(env.dotGit)
    ELSE <<>>

\* one call's environment: whether g.repo.Worktree() fails, what .git is, the
\* markers present in the git directory, and whether that directory can be read
RepoEnvs ==
    {env \in [worktreeErr : BOOLEAN, dotGit : DotGitKinds, markers : SUBSET Markers,
              readable : BOOLEAN] :
        ActualGitDir(env) = <<>> => env.markers = {} /\ env.readable}

\* fileExists: os.Stat returns no error
FileExists(env, path) ==
    /\ env.readable
    /\ \E m \in env.markers : path = Join(ActualGitDir(env), m)

\* the directory GetRepoState looks for markers in
ResolveGitDir(env) ==
    LET gitDir == Join(WorktreeRoot, ".git") IN
    IF HasPointer(env.dotGit)
    THEN LET commonDir == Dir(GitDirPointer(env.dotGit)) IN
         IF Contains(commonDir, <<SEP, "worktrees", SEP>>) THEN Dir(Dir(commonDir))
         ELSE commonDir
    ELSE gitDir

RepoStateResult(state, err) == [state |-> state, err |-> err]

\* the chain of marker checks
MarkerState(env, gitDir) ==
    IF \/ FileExists(env, Join(gitDir, "rebase-merge"))
       \/ FileExists(env, Join(gitDir, "rebase-apply")) THEN "rebasing"
    ELSE IF FileExists(env, Join(gitDir, "MERGE_HEAD")) THEN "merging"
    ELSE IF FileExists(env, Join(gitDir, "CHERRY_PICK_HEAD")) THEN "cherry-picking"
    ELSE IF FileExists(env, Join(gitDir, "REVERT_HEAD")) THEN "reverting"
    ELSE IF FileExists(env, Join(gitDir, "BISECT_LOG")) THEN "bisecting"
    ELSE RepoStateNormal

\* GetRepoState: the state and the error ("" for none)
GetRepoStateOutcome(env) ==
    IF env.worktreeErr THEN RepoStateResult(RepoStateNormal, "failed to get worktree")
    ELSE IF env.dotGit = "file unreadable"
        THEN RepoStateResult(RepoStateNormal, "failed to read .git file")
    ELSE RepoStateResult(MarkerState(env, ResolveGitDir(env)), "")

InitRepoState ==
    /\ ExecIdle /\ GenIdle
    /\ fpc = "ready"
    /\ fIn \in RepoEnvs
    /\ fOut = <<>>

GetRepoStateAlone ==
    /\ fpc = "ready"
    /\ fOut' = GetRepoStateOutcome(fIn)
    /\ fpc' = "returned"
    /\ UNCHANGED <<fIn, execVars, genVars>>

NextRepoState == GetRepoStateAlone

SpecRepoState == InitRepoState /\ [][NextRepoState]_vars

(* ----------------------- gitOperations.HasConflicts --------------------- *)
\* strings.Split(s, "\n")
RECURSIVE SplitLines(_)
SplitLines(s) ==
    LET nls == {i \in 1..Len(s) : s[i] = NL} IN
    IF nls = {} THEN <<s>>
    ELSE LET first == CHOOSE i \in nls : \A j \in nls : i <= j IN
         <<SubSeq(s, 1, first - 1)>> \o SplitLines(SubSeq(s, first + 1, Len(s)))

\* the text of a command that prints one line for each element of lines
RECURSIVE Printed(_)
Printed(lines) ==
    IF lines = <<>> THEN <<>> ELSE Head(lines) \o <<NL>> \o Printed(Tail(lines))

\* the elements of a list that are not empty
RECURSIVE NonEmpty(_)
NonEmpty(list) ==
    IF list = <<>> THEN <<>>
    ELSE (IF Head(list) # <<>> THEN <<Head(list)>> ELSE <<>>) \o NonEmpty(Tail(list))

ConflictPaths == {<<"a">>, <<"b">>}

\* two-letter codes of git status --porcelain: the unmerged ones and others
StatusCodes ==
    {<<"U", "U">>, <<"A", "A">>, <<"D", "D">>, <<"A", "U">>, <<"U", "A">>, <<"D", "U">>,
     <<"U", "D">>, <<SP, "M">>, <<"M", "M">>, <<"A", "D">>, <<"?", "?">>}

\* one line of git status --porcelain
StatusLine(code, file) == code \o <<SP>> \o file

StatusLines == {StatusLine(code, file) : code \in StatusCodes, file \in ConflictPaths}

SeqsUpTo2(S) == {<<>>} \cup {<<x>> : x \in S} \cup {<<x, y>> : x \in S, y \in S}

\* one call's environment: whether Worktree() fails in HasConflicts and in
\* GetConflictedFiles, whether git diff and git status fail, and what they print
ConflictEnvs ==
    [worktreeErr : BOOLEAN, statusWorktreeErr : BOOLEAN,
     diffFails : BOOLEAN, diffLines : {<<>>, <<<<"a">>>>, <<<<"a">>, <<"b">>>>},
     statusFails : BOOLEAN, statusLines : SeqsUpTo2(StatusLines)]

\* mutant: files deleted on both sides are not counted
IsConflictStatusWithoutDD(status) ==
    status \in {<<"U", "U">>, <<"A", "A">>, <<"A", "U">>, <<"U", "A">>, <<"D", "U">>,
                <<"U", "D">>}

\* isConflictStatus
IsConflictStatus(status) ==
    LET conflictStatuses ==
            <<<<"U", "U">>, <<"A", "A">>, <<"D", "D">>, <<"A", "U">>, <<"U", "A">>,
              <<"D", "U">>, <<"U", "D">>>>
    IN  \E i \in 1..Len(conflictStatuses) : status = conflictStatuses[i]

\* the loop of GetConflictedFiles over the lines of the status output
RECURSIVE ConflictedOf(_)
ConflictedOf(lines) ==
    IF lines = <<>> THEN <<>>
    ELSE LET line == Head(lines) IN
         (IF Len(line) > 2 /\ IsConflictStatus(SubSeq(line, 1, 2))
          THEN <<TrimSpace(SubSeq(line, 4, Len(line)))>>
          ELSE <<>>) \o ConflictedOf(Tail(lines))

ConflictResult(has, files, err) == [has |-> has, files |-> files, err |-> err]

\* GetConflictedFiles: the files and the error ("" for none)
GetConflictedFiles(env) ==
    IF env.statusWorktreeErr THEN [files |-> <<>>, err |-> "failed to get worktree"]
    ELSE IF env.statusFails THEN [files |-> <<>>, err |-> "failed to get git status"]
    ELSE [files |-> ConflictedOf(SplitLines(Printed(env.statusLines))), err |-> ""]

\* hasConflictsViaStatus
HasConflictsViaStatus(env) ==
    LET got == GetConflictedFiles(env) IN
    IF got.err # "" THEN ConflictResult(FALSE, <<>>, got.err)
    ELSE ConflictResult(Len(got.files) > 0, got.files, "")

\* HasConflicts
HasConflictsOutcome(env) ==
    IF env.worktreeErr THEN ConflictResult(FALSE, <<>>, "failed to get worktree")
    ELSE IF env.diffFails THEN HasConflictsViaStatus(env)
    ELSE LET output == Printed(env.diffLines) IN
         IF Len(output) = 0 THEN ConflictResult(FALSE, <<>>, "")
         ELSE LET conflictedFiles == NonEmpty(SplitLines(TrimSpace(output))) IN
              ConflictResult(Len(conflictedFiles) > 0, conflictedFiles, "")

InitConflicts ==
    /\ ExecIdle /\ GenIdle
    /\ fpc = "ready"
    /\ fIn \in ConflictEnvs
    /\ fOut = <<>>

HasConflictsAlone ==
    /\ fpc = "ready"
    /\ fOut' = HasConflictsOutcome(fIn)
    /\ fpc' = "returned"
    /\ UNCHANGED <<fIn, execVars, genVars>>

NextConflicts == HasConflictsAlone

SpecConflicts == InitConflicts /\ [][NextConflicts]_vars

(* ------------------ parseSemVer and IncrementVersion -------------------- *)
IntMax == 2^(IntBits - 1) - 1
IntMin == -(2^(IntBits - 1))

\* the sum of two ints, wrapped to the width of int
WrapAdd(x, y) == ((x + y - IntMin) % 2^IntBits) + IntMin

Digits == <<"0", "1", "2", "3", "4", "5", "6", "7", "8", "9">>
IsDigit(c) == \E i \in 1..10 : Digits[i] = c
DigitValue(c) == (CHOOSE i \in 1..10 : Digits[i] = c) - 1

\* the number a string of digits denotes
RECURSIVE Decimal(_)
Decimal(s) ==
    IF s = <<>> THEN 0 ELSE 10 * Decimal(SubSeq(s, 1, Len(s) - 1)) + DigitValue(s[Len(s)])

\* strconv.Atoi with its error dropped: 0 for a string that is no number, the
\* nearest int for a number out of range
Atoi(s) ==
    LET signed == s # <<>> /\ Head(s) \in {"+", "-"}
        digits == IF signed THEN Tail(s) ELSE s
    IN  IF digits = <<>> \/ \E i \in 1..Len(digits) : ~IsDigit(digits[i]) THEN 0
        ELSE IF signed /\ Head(s) = "-"
             THEN (IF -Decimal(digits) < IntMin THEN IntMin ELSE -Decimal(digits))
             ELSE (IF Decimal(digits) > IntMax THEN IntMax ELSE Decimal(digits))

\* the digits of a natural number
RECURSIVE NatDigits(_)
NatDigits(n) ==
    IF n < 10 THEN <<Digits[n + 1]>> ELSE NatDigits(n \div 10) \o <<Digits[(n % 10) + 1]>>

\* an int as %d prints it
Itoa(n) == IF n < 0 THEN <<"-">> \o NatDigits(-n) ELSE NatDigits(n)

\* strings.Split(s, ".")
RECURSIVE SplitDots(_)
SplitDots(s) ==
    LET dots == {i \in 1..Len(s) : s[i] = "."} IN
    IF dots = {} THEN <<s>>
    ELSE LET first == CHOOSE i \in dots : \A j \in dots : i <= j IN
         <<SubSeq(s, 1, first - 1)>> \o SplitDots(SubSeq(s, first + 1, Len(s)))

\* strings.TrimPrefix(s, prefix)
TrimPrefix(s, prefix) ==
    IF HasPrefix(s, prefix) THEN SubSeq(s, Len(prefix) + 1, Len(s)) ELSE s

semVer(major, minor, patch) == [Major |-> major, Minor |-> minor, Patch |-> patch]

\* mutant: the parts are read in reverse
ParseSemVerReversed(version) ==
    LET parts == SplitDots(TrimPrefix(version, <<"v">>)) IN
    IF Len(parts) # 3 THEN semVer(0, 0, 0)
    ELSE semVer(Atoi(parts[3]), Atoi(parts[2]), Atoi(parts[1]))

\* parseSemVer
ParseSemVer(version) ==
    LET parts == SplitDots(TrimPrefix(version, <<"v">>)) IN
    IF Len(parts) # 3 THEN semVer(0, 0, 0)
    ELSE semVer(Atoi(parts[1]), Atoi(parts[2]), Atoi(parts[3]))

\* fmt.Sprintf("v%d.%d.%d", ...)
FormatSemVer(version) ==
    <<"v">> \o Itoa(version.Major) \o <<".">> \o Itoa(version.Minor) \o <<".">>
        \o Itoa(version.Patch)

\* the parts a tag may be written with: numbers, numbers with a leading zero
\* or a sign, a number too large for an int, and parts that are no number
VersionParts ==
    {<<>>, <<"0">>, <<"1">>, <<"0", "1">>, <<"1", "0">>, <<"9", "9">>, <<"x">>, <<"1", "x">>,
     <<"-", "1">>, <<"+", "1">>}

\* the tags: every tag of three parts, with and without the v, and tags with
\* another number of parts
VersionTags ==
    {prefix \o a \o <<".">> \o b \o <<".">> \o c :
        prefix \in {<<>>, <<"v">>}, a \in VersionParts, b \in VersionParts, c \in VersionParts}
    \cup {<<>>, <<"v">>, <<"x">>, <<"v", "1">>, <<"v", "1", ".", "1">>,
          <<"v", "1", ".", "1", ".", "1", ".", "1">>, <<"v", "v", "1", ".", "1", ".", "1">>}

InitSemVer ==
    /\ ExecIdle /\ GenIdle
    /\ fpc = "ready"
    /\ fIn \in VersionTags
    /\ fOut = <<>>

ParseSemVerAlone ==
    /\ fpc = "ready"
    /\ fOut' = ParseSemVer(fIn)
    /\ fpc' = "returned"
    /\ UNCHANGED <<fIn, execVars, genVars>>

NextSemVer == ParseSemVerAlone

SpecSemVer == InitSemVer /\ [][NextSemVer]_vars

\* strings.ToLower on the letters an increment type is written with
LowerOf(c) ==
    LET upper == <<"M", "A", "J", "O", "R", "I", "N", "P", "T", "C", "H">>
        lower == <<"m", "a", "j", "o", "r", "i", "n", "p", "t", "c", "h">>
    IN  IF \E i \in 1..Len(upper) : upper[i] = c
        THEN lower[CHOOSE i \in 1..Len(upper) : upper[i] = c]
        ELSE c

ToLowerChars(s) == [i \in 1..Len(s) |-> LowerOf(s[i])]

IncrementTypes ==
    {<<"m", "a", "j", "o", "r">>,
     <<"M", "A", "J", "O", "R">>,
     <<"M", "a", "j", "o", "r">>,
     <<"m", "i", "n", "o", "r">>,
     <<"m", "I", "n", "o", "r">>,
     <<"p", "a", "t", "c", "h">>,
     <<"P", "A", "T", "C", "H">>,
     <<"b", "o", "g", "u", "s">>,
     <<"m", "a", "j", "o">>,
     <<>>}

\* the switch of IncrementVersion, for the three kinds it knows
Bump(version, kind) ==
    IF kind = <<"m", "a", "j", "o", "r">> THEN semVer(WrapAdd(version.Major, 1), 0, 0)
    ELSE IF kind = <<"m", "i", "n", "o", "r">>
        THEN semVer(version.Major, WrapAdd(version.Minor, 1), 0)
    ELSE semVer(version.Major, version.Minor, WrapAdd(version.Patch, 1))

\* IncrementVersion: the new tag and the error ("" for none)
IncrementVersion(currentTag, incrementType) ==
    LET version == IF currentTag = <<>> THEN semVer(0, 0, 0) ELSE ParseSemVer(currentTag)
        kind == ToLowerChars(incrementType)
    IN  IF kind \in {<<"m", "a", "j", "o", "r">>, <<"m", "i", "n", "o", "r">>, <<"p", "a", "t", "c", "h">>}
        THEN [tag |-> FormatSemVer(Bump(version, kind)), err |-> ""]
        ELSE [tag |-> <<>>, err |-> "invalid increment type"]

InitIncrement ==
    /\ ExecIdle /\ GenIdle
    /\ fpc = "ready"
    /\ fIn \in [tag : VersionTags, kind : IncrementTypes]
    /\ fOut = <<>>

IncrementVersionAlone ==
    /\ fpc = "ready"
    /\ fOut' = IncrementVersion(fIn.tag, fIn.kind)
    /\ fpc' = "returned"
    /\ UNCHANGED <<fIn, execVars, genVars>>

NextIncrement == IncrementVersionAlone

SpecIncrement == InitIncrement /\ [][NextIncrement]_vars

(* ---------------------- generateMergeRequestURL ------------------------- *)
\* texts are sequences of characters and of words made of unreserved
\* characters; these are the characters url.QueryEscape rewrites
PercentCode(c) ==
    IF c = "/" THEN <<"%", "2", "F">>
    ELSE IF c = "[" THEN <<"%", "5", "B">>
    ELSE IF c = "]" THEN <<"%", "5", "D">>
    ELSE IF c = SP THEN <<"+">>
    ELSE <<c>>

\* mutant: nothing is escaped
QueryEscapeNothing(s) == s

\* url.QueryEscape
RECURSIVE QueryEscape(_)
QueryEscape(s) ==
    IF s = <<>> THEN <<>> ELSE PercentCode(Head(s)) \o QueryEscape(Tail(s))

\* url.Values.Encode on the keys in sorted order
RECURSIVE EncodeValues(_)
EncodeValues(params) ==
    IF params = <<>> THEN <<>>
    ELSE QueryEscape(Head(params).key) \o <<"=">> \o QueryEscape(Head(params).value)
         \o (IF Len(params) > 1 THEN <<"&">> ELSE <<>>) \o EncodeValues(Tail(params))

PlatformGitHub == "github"
PlatformGitLab == "gitlab"
PlatformUnknown == "unknown"

\* a nil *RemoteInfo
NilInfo == [Platform |-> "nil"]

RemoteInfo(platform, host, owner, name) ==
    [Platform |-> platform, Host |-> host, Owner |-> owner, Repo |-> name]

SourceBranchKey == <<"merge_request", "[", "source_branch", "]">>
TargetBranchKey == <<"merge_request", "[", "target_branch", "]">>

\* https://<host>/<owner>/<repo>
RepoURL(info) == <<"https://">> \o info.Host \o <<"/">> \o info.Owner \o <<"/">> \o info.Repo

\* generateMergeRequestURL
GenerateMergeRequestURL(info, branch, targetBranch) ==
    IF info = NilInfo \/ branch = <<>> THEN <<>>
    ELSE LET encodedBranch == QueryEscape(branch)
             encodedTargetBranch == QueryEscape(targetBranch)
         IN  IF info.Platform = PlatformGitHub
             THEN IF targetBranch # <<>> /\ targetBranch # branch
                  THEN RepoURL(info) \o <<"/compare/">> \o encodedTargetBranch \o <<"...">>
                       \o encodedBranch \o <<"?expand=1">>
                  ELSE RepoURL(info) \o <<"/pull/new/">> \o encodedBranch
             ELSE IF info.Platform = PlatformGitLab
             THEN LET baseURL == RepoURL(info) \o <<"/-/merge_requests/new">>
                      source == <<[key |-> SourceBranchKey, value |-> branch]>>
                      params ==
                          IF targetBranch # <<>> /\ targetBranch # branch
                          THEN source \o <<[key |-> TargetBranchKey, value |-> targetBranch]>>
                          ELSE source
                  IN  baseURL \o <<"?">> \o EncodeValues(params)
             ELSE <<>>

BranchNames == {<<>>, <<"main">>, <<"dev">>, <<"feature", "/", "x">>, <<"fix", "-", "1">>}

RemoteInfos ==
    {NilInfo}
    \cup {RemoteInfo(platform, <<"host">>, owner, <<"repo">>) :
            platform \in {PlatformGitHub, PlatformGitLab, PlatformUnknown},
            owner \in {<<"owner">>, <<"group", "/", "subgroup">>}}

InitURL ==
    /\ ExecIdle /\ GenIdle
    /\ fpc = "ready"
    /\ fIn \in [info : RemoteInfos, branch : BranchNames, targetBranch : BranchNames]
    /\ fOut = <<>>

GenerateMergeRequestURLAlone ==
    /\ fpc = "ready"
    /\ fOut' = [url |-> GenerateMergeRequestURL(fIn.info, fIn.branch, fIn.targetBranch)]
    /\ fpc' = "returned"
    /\ UNCHANGED <<fIn, execVars, genVars>>

NextURL == GenerateMergeRequestURLAlone

SpecURL == InitURL /\ [][NextURL]_vars

(* ------------------ parseRemoteURL and gitOperations.Push --------------- *)
\* strings.ToLower on the words a host is written with
LowerWord(w) == IF w = "GITLAB" THEN "gitlab" ELSE IF w = "GitHub" THEN "github" ELSE w

LowerWords(s) == [i \in 1..Len(s) |-> LowerWord(s[i])]

\* strings.Join(parts, "/")
RECURSIVE JoinSlash(_)
JoinSlash(parts) ==
    IF parts = <<>> THEN <<>>
    ELSE IF Len(parts) = 1 THEN Head(parts)
    ELSE Head(parts) \o <<"/">> \o JoinSlash(Tail(parts))

\* detectPlatform
DetectPlatform(host) ==
    LET lowerHost == LowerWords(host) IN
    IF Contains(lowerHost, <<"github">>) THEN PlatformGitHub
    ELSE IF Contains(lowerHost, <<"gitlab">>) THEN PlatformGitLab
    ELSE PlatformUnknown

RemoteHosts == {<<"github", ".com">>, <<"GITLAB", ".com">>, <<"gitlab", ".org">>, <<"bitbucket", ".org">>}

\* the path of a remote URL, split at the slashes
RemotePaths ==
    {<<<<"owner">>>>, <<<<"owner">>, <<"repo", ".git">>>>,
     <<<<"group">>, <<"subgroup">>, <<"repo">>>>}

\* a remote URL: empty, http(s)://<host>/<path>, [ssh://][git@]<host>:<path>,
\* or a text of neither form
RemoteURLs ==
    {[form |-> "empty"], [form |-> "unsupported"]}
    \cup [form : {"https", "ssh"}, host : RemoteHosts, path : RemotePaths]

\* parseRemoteURL: the error ("" for none) and the *RemoteInfo
ParseRemoteURL(remoteURL) ==
    IF remoteURL.form = "empty" THEN [err |-> "empty remote URL", info |-> NilInfo]
    ELSE IF remoteURL.form = "unsupported"
        THEN [err |-> "unsupported URL format", info |-> NilInfo]
    ELSE LET host == remoteURL.host
             n == Len(remoteURL.path)
         IN  IF remoteURL.form = "https"
             THEN LET pathParts == remoteURL.path IN
                  IF n >= 2
                  THEN LET nested == Contains(host, <<"gitlab">>) /\ n > 2
                           owner == IF nested THEN JoinSlash(SubSeq(pathParts, 1, n - 1))
                                    ELSE pathParts[1]
                           name == IF nested THEN TrimSuffix(pathParts[n], <<".git">>)
                                   ELSE TrimSuffix(pathParts[2], <<".git">>)
                       IN  [err |-> "", info |-> RemoteInfo(DetectPlatform(host), host, owner, name)]
                  ELSE [err |-> "invalid repository path in URL", info |-> NilInfo]
             ELSE \* the pattern leaves a trailing .git out of the path it captures
                  LET pathParts ==
                          [i \in 1..n |-> IF i = n THEN TrimSuffix(remoteURL.path[i], <<".git">>)
                                          ELSE remoteURL.path[i]]
                  IN
                  IF n >= 2
                  THEN LET nested == Contains(LowerWords(host), <<"gitlab">>) /\ n > 2
                           owner == IF nested THEN JoinSlash(SubSeq(pathParts, 1, n - 1))
                                    ELSE pathParts[1]
                           name == IF nested THEN TrimSuffix(pathParts[n], <<".git">>)
                                   ELSE TrimSuffix(JoinSlash(SubSeq(pathParts, 2, n)), <<".git">>)
                       IN  [err |-> "", info |-> RemoteInfo(DetectPlatform(host), host, owner, name)]
                  ELSE [err |-> "invalid repository path in SSH URL", info |-> NilInfo]

\* what git symbolic-ref refs/remotes/origin/HEAD prints, <<"failed">> standing
\* for a run that fails
SymbolicRefs ==
    {<<"failed">>, <<"refs/remotes/origin/", "main", NL>>,
     <<"refs/remotes/origin/", "master", NL>>, <<"refs/heads/", "main", NL>>}

PushBranches == {<<"main">>, <<"master">>, <<"dev">>}

\* one call's environment: whether HEAD can be read, the current branch,
\* whether git push fails, the remote origin (its first URL, or that there is
\* no such remote or that it has no URLs), and the symbolic ref
PushEnvs ==
    [headErr : BOOLEAN, branch : PushBranches, pushFails : BOOLEAN,
     remote : {[form |-> "none"], [form |-> "no URLs"]} \cup RemoteURLs,
     symbolicRef : SymbolicRefs]

\* GetRemoteURL("origin")
GetRemoteURL(env) ==
    IF env.remote.form = "none" THEN [err |-> "failed to get remote", url |-> [form |-> "empty"]]
    ELSE IF env.remote.form = "no URLs" THEN [err |-> "remote has no URLs", url |-> [form |-> "empty"]]
    ELSE [err |-> "", url |-> env.remote]

\* mutant: main is taken for the default branch when the probe fails
GetDefaultBranchMain(env) ==
    IF env.symbolicRef # <<"failed">>
       /\ HasPrefix(TrimSpace(env.symbolicRef), <<"refs/remotes/origin/">>)
    THEN TrimPrefix(TrimSpace(env.symbolicRef), <<"refs/remotes/origin/">>)
    ELSE <<"main">>

\* GetDefaultBranch
GetDefaultBranch(env) ==
    IF env.symbolicRef # <<"failed">>
       /\ HasPrefix(TrimSpace(env.symbolicRef), <<"refs/remotes/origin/">>)
    THEN TrimPrefix(TrimSpace(env.symbolicRef), <<"refs/remotes/origin/">>)
    ELSE <<"master">>

\* what Push returns, and the branch git push was run for (<<>> for none)
PushResult(url, err, pushed) == [url |-> url, err |-> err, pushed |-> pushed]

\* Push
PushOutcome(env) ==
    IF env.headErr THEN PushResult(<<>>, "failed to get current branch", <<>>)
    ELSE LET branch == env.branch IN
         IF env.pushFails THEN PushResult(<<>>, "failed to push to origin", <<>>)
         ELSE IF GetRemoteURL(env).err # "" THEN PushResult(<<>>, "", branch)
         ELSE LET parsed == ParseRemoteURL(GetRemoteURL(env).url) IN
              IF parsed.err # "" THEN PushResult(<<>>, "", branch)
              ELSE LET targetBranch == GetDefaultBranch(env) IN
                   IF branch # targetBranch
                   THEN PushResult(GenerateMergeRequestURL(parsed.info, branch, targetBranch),
                                   "", branch)
                   ELSE PushResult(<<>>, "", branch)

InitPush ==
    /\ ExecIdle /\ GenIdle
    /\ fpc = "ready"
    /\ fIn \in PushEnvs
    /\ fOut = <<>>

PushAlone ==
    /\ fpc = "ready"
    /\ fOut' = PushOutcome(fIn)
    /\ fpc' = "returned"
    /\ UNCHANGED <<fIn, execVars, genVars>>

NextPush == PushAlone

SpecPush == InitPush /\ [][NextPush]_vars

(* ------------- JIRATaskDetector.TransformCommitMessage ------------------ *)
\* branch names and messages are sequences of characters and lower-case words
IsUpper(c) == c \in {"A", "B"}

\* the number of upper-case letters, and of digits, that s goes on with at i
RECURSIVE UpperRun(_, _)
UpperRun(s, i) == IF i <= Len(s) /\ IsUpper(s[i]) THEN 1 + UpperRun(s, i + 1) ELSE 0

RECURSIVE DigitRun(_, _)
DigitRun(s, i) == IF i <= Len(s) /\ IsDigit(s[i]) THEN 1 + DigitRun(s, i + 1) ELSE 0

\* what ([A-Z]+-\d+) matches at position i of s, <<>> if nothing
JiraIDAt(s, i) ==
    LET letters == UpperRun(s, i)
        dash == i + letters
        digits == DigitRun(s, dash + 1)
    IN  IF letters > 0 /\ dash <= Len(s) /\ s[dash] = "-" /\ digits > 0
        THEN SubSeq(s, i, dash + digits)
        ELSE <<>>

\* whether the ID found at i is followed by a hyphen or by the end
EndsOrHyphen(s, i) ==
    LET next == i + Len(JiraIDAt(s, i)) IN
    JiraIDAt(s, i) # <<>> /\ (next > Len(s) \/ s[next] = "-")

\* detectJiraID: the first of jiraPatterns that matches
DetectJiraID(branchName) ==
    LET slashes == {i \in 1..Len(branchName) : branchName[i] = "/" /\ EndsOrHyphen(branchName, i + 1)}
    IN  IF JiraIDAt(branchName, 1) # <<>> THEN JiraIDAt(branchName, 1)
        ELSE IF /\ Len(branchName) > 2
                /\ branchName[1] \in {"feature", "bugfix", "hotfix", "chore"}
                /\ branchName[2] = "/"
                /\ EndsOrHyphen(branchName, 3)
            THEN JiraIDAt(branchName, 3)
        ELSE IF slashes # {}
            THEN JiraIDAt(branchName, (CHOOSE i \in slashes : \A j \in slashes : i <= j) + 1)
        ELSE <<>>

\* isConventionalCommitPrefix: type, type(scope), type! or type(scope)! with a
\* type of conventionalCommitTypes
IsConventionalCommitPrefix(prefix) ==
    /\ prefix # <<>>
    /\ Head(prefix) \in {"feat", "fix", "docs", "style", "refactor", "perf", "test", "build",
                         "ci", "chore", "revert"}
    /\ Tail(prefix) \in {<<>>, <<"(api)">>, <<"!">>, <<"(api)", "!">>}

\* strings.Index(s, sub), -1 if sub is not in s
Index(s, sub) ==
    LET at == {i \in 0..(Len(s) - Len(sub)) : SubSeq(s, i + 1, i + Len(sub)) = sub} IN
    IF at = {} THEN -1 ELSE CHOOSE i \in at : \A j \in at : i <= j

\* strings.SplitN(s, "\n", 2)
SplitFirstLine(s) ==
    LET idx == Index(s, <<NL>>) IN
    IF idx = -1 THEN <<s>> ELSE <<SubSeq(s, 1, idx), SubSeq(s, idx + 2, Len(s))>>

\* strings.Join(lines, "\n") for the one or two lines of SplitFirstLine
JoinLines(lines) ==
    IF Len(lines) = 1 THEN lines[1] ELSE lines[1] \o <<NL>> \o lines[2]

JiraPositions == {"none", "prefix", "infix", "suffix", "other"}
JiraStyles == {"plain", "plain_colon", "brackets", "parens"}

\* the switch on the style
FormattedID(position, style, jiraID) ==
    IF style = "brackets" THEN <<"[">> \o jiraID \o <<"]">>
    ELSE IF style = "parens" THEN <<"(">> \o jiraID \o <<")">>
    ELSE IF style = "plain_colon" /\ position = "prefix" THEN jiraID \o <<":">>
    ELSE jiraID

\* mutant: the ID is looked for in the first line only
AlreadyInFirstLine(message, jiraID) ==
    Contains(SplitFirstLine(message)[1], jiraID)

\* whether the message holds the ID already
AlreadyThere(message, jiraID) == Contains(message, jiraID)

\* addJiraID
AddJiraID(position, style, message, jiraID) ==
    IF jiraID = <<>> THEN message
    ELSE IF AlreadyThere(message, jiraID) THEN message
    ELSE LET lines == SplitFirstLine(message)
             firstLine == lines[1]
             formattedID == FormattedID(position, style, jiraID)
             idx == Index(firstLine, <<":", SP>>)
             conventional ==
                 idx > 0 /\ idx < 50 /\ IsConventionalCommitPrefix(SubSeq(firstLine, 1, idx))
             prefix == IF conventional THEN SubSeq(firstLine, 1, idx) ELSE <<>>
             mainMessage ==
                 IF conventional THEN SubSeq(firstLine, idx + 3, Len(firstLine)) ELSE firstLine
         IN  IF position = "prefix"
             THEN JoinLines([lines EXCEPT ![1] = formattedID \o <<SP>> \o firstLine])
             ELSE IF position = "infix"
             THEN JoinLines([lines EXCEPT ![1] =
                      IF prefix # <<>>
                      THEN prefix \o <<":", SP>> \o formattedID \o <<SP>> \o mainMessage
                      ELSE formattedID \o <<SP>> \o firstLine])
             ELSE IF position = "suffix"
             THEN JoinLines([lines EXCEPT ![1] = firstLine \o <<SP>> \o formattedID])
             ELSE message

\* TransformCommitMessage: the message and whether work was done
TransformCommitMessage(position, style, branch, message) ==
    IF position = "none" THEN [message |-> message, changed |-> FALSE]
    ELSE IF DetectJiraID(branch) = <<>> THEN [message |-> message, changed |-> FALSE]
    ELSE [message |-> AddJiraID(position, style, message, DetectJiraID(branch)),
          changed |-> TRUE]

JiraBranches ==
    {<<"main">>, <<"A", "-", "1">>, <<"A", "-", "1", "-", "x">>,
     <<"feature", "/", "A", "-", "1", "-", "x">>, <<"user", "/", "B", "-", "2">>,
     <<"feature", "/", "A", "-", "1", "x">>, <<"feature", "/", "x">>}

\* first lines: plain, with a conventional prefix, with another prefix, with
\* the ID A-1 in them, and with the longer ID A-12
JiraFirstLines ==
    {<<>>, <<"x">>, <<"feat", ":", SP, "x">>, <<"feat", "(api)", "!", ":", SP, "x">>,
     <<"foo", ":", SP, "x">>, <<":", SP, "x">>, <<"x", SP, "A", "-", "1">>,
     <<"A", "-", "1", "2", SP, "x">>, <<"fix", ":", SP, "x", ":", SP, "y">>}

\* what follows the first line: nothing, or a newline and more lines
JiraRests == {<<>>, <<NL, "body">>, <<NL, NL, "b", ":", SP, "c", NL>>, <<NL, "see", SP, "A", "-", "1">>}

JiraMessages == {first \o rest : first \in JiraFirstLines, rest \in JiraRests}

InitJira ==
    /\ ExecIdle /\ GenIdle
    /\ fpc = "ready"
    /\ fIn \in [position : JiraPositions, style : JiraStyles, branch : JiraBranches,
                message : JiraMessages]
    /\ fOut = <<>>

TransformCommitMessageAlone ==
    /\ fpc = "ready"
    /\ fOut' = TransformCommitMessage(fIn.position, fIn.style, fIn.branch, fIn.message)
    /\ fpc' = "returned"
    /\ UNCHANGED <<fIn, execVars, genVars>>

NextJira == TransformCommitMessageAlone

SpecJira == InitJira /\ [][NextJira]_vars

(* ---------------------- aiService.FilterProviders ----------------------- *)
\* provider names, in the spellings a configuration and a request may use
ProviderNames == {"openai", "OpenAI", "claude", "CLAUDE", "Gemini", "nonexistent"}

\* strings.ToLower on provider names
LowerName(n) ==
    IF n = "OpenAI" THEN "openai"
    ELSE IF n = "CLAUDE" THEN "claude"
    ELSE IF n = "Gemini" THEN "gemini"
    ELSE n

ConfiguredSets == SUBSET {"openai", "claude", "Gemini"}

RequestLists == SeqsUpTo2(ProviderNames)

\* mutant: the names are compared as they are written
FilterProvidersExactNames(configured, requested) ==
    IF requested = <<>> THEN configured
    ELSE {p \in configured : \E i \in 1..Len(requested) : requested[i] = p}

\* FilterProviders: the configured providers a request selects
FilterProviders(configured, requested) ==
    IF requested = <<>> THEN configured
    ELSE {p \in configured :
            \E i \in 1..Len(requested) : LowerName(requested[i]) = LowerName(p)}

InitFilter ==
    /\ ExecIdle /\ GenIdle
    /\ fpc = "ready"
    /\ fIn \in [configured : ConfiguredSets, requested : RequestLists]
    /\ fOut = <<>>

FilterProvidersAlone ==
    /\ fpc = "ready"
    /\ fOut' = [providers |-> FilterProviders(fIn.configured, fIn.requested)]
    /\ fpc' = "returned"
    /\ UNCHANGED <<fIn, execVars, genVars>>

NextFilter == FilterProvidersAlone

SpecFilter == InitFilter /\ [][NextFilter]_vars

(* -------------------- gitOperations.CreateCommit alone ------------------ *)
\* one call of CreateCommit, in any configuration and any environment
InitCommit ==
    /\ ExecIdle /\ GenIdle
    /\ fpc = "ready"
    /\ fIn \in [raw : RawConfigs, env : CommitEnvs]
    /\ fOut = <<>>

CreateCommitAlone ==
    /\ fpc = "ready"
    /\ fOut' = CreateCommitOutcome(fIn.raw, fIn.env)
    /\ fpc' = "returned"
    /\ UNCHANGED <<fIn, execVars, genVars>>

NextCommit == CreateCommitAlone

SpecCommit == InitCommit /\ [][NextCommit]_vars

(* ======================== properties of Execute ======================== *)
MutatingOps == {"UnstageAll", "StageFiles", "CreateCommit", "Push", "CreateTag", "PushTag"}
PostOps == {"CreateCommit", "Push", "GetLatestTag", "IncrementVersion", "CreateTag", "PushTag"}
GitOps ==
    {"IsGitRepository", "GetRepoState", "HasConflicts", "UnstageAll", "StageFiles",
     "GetStagedDiff", "GetCurrentBranch"} \cup PostOps

IsPostCall(c) == c.op \in PostOps
IsReadCall(c) == c.op \notin PostOps
PostCalls == SelectSeq(calls, IsPostCall)
ReadCalls == SelectSeq(calls, IsReadCall)
IsPrefix(a, b) == Len(a) <= Len(b) /\ a = SubSeq(b, 1, Len(a))
Returned == pc = "done"
ReturnedError == pc = "done" /\ ret \notin {"running", "nil"}
CountOk(op) == Cardinality({i \in 1..Len(calls) : calls[i].op = op /\ calls[i].ok})

PreconditionFailed ==
    \/ obs.numProviders = 0
    \/ obs.isRepo = "false"
    \/ obs.repoStateErr
    \/ obs.repoState \notin {"unset", RepoStateNormal}
    \/ obs.conflictsErr
    \/ obs.hasConflicts = "true"

\* C1: a failed precondition (no providers, not a repository, repository state
\* unreadable or not normal, conflicts unreadable or present) makes Execute
\* return an error with no call to UnstageAll, StageFiles, CreateCommit, Push,
\* CreateTag or PushTag; with no providers no git operation is called at all.
C1_PreconditionAbort ==
    PreconditionFailed =>
        /\ ReturnedError
        /\ \A i \in 1..Len(calls) : calls[i].op \notin MutatingOps
        /\ repo = RepoInit
        /\ (obs.numProviders = 0 => \A i \in 1..Len(calls) : calls[i].op \notin GitOps)

C1_Witness ==
    /\ obs.hasConflicts = "true"
    /\ ReturnedError
    /\ Called("HasConflicts")

\* the mutating steps a non-dry run is to make, in order
Plan(s) ==
    <<"CreateCommit">>
    \o (IF s.Push THEN <<"Push">> ELSE <<>>)
    \o (IF s.Tag # "" THEN <<"GetLatestTag", "IncrementVersion", "CreateTag">> ELSE <<>>)
    \o (IF s.Tag # "" /\ s.Push THEN <<"PushTag">> ELSE <<>>)

\* C2: with DryRun off the mutating steps run in the order CreateCommit, Push
\* (if Push), GetLatestTag/IncrementVersion/CreateTag (if Tag), PushTag (if Tag
\* and Push); a step runs only after all earlier ones succeeded; a failing
\* step ends Execute with an error at once; nothing completed is rolled back.
C2_FixedOrderNoRollback ==
    LET post == PostCalls
        n == Len(post) IN
    /\ IsPrefix(Ops(post), Plan(settings))
    /\ \A i \in 1..n : i < n => post[i].ok
    /\ (n > 0 /\ ~post[n].ok => ReturnedError)
    /\ (n > 0 /\ post[n].ok /\ Returned => ret = "nil" /\ Ops(post) = Plan(settings))
    /\ (obs.finalized = "commit" => n > 0 /\ ~settings.DryRun)
    /\ repo.commits = CountOk("CreateCommit")
    /\ repo.pushes = CountOk("Push")
    /\ repo.tags = CountOk("CreateTag")
    /\ repo.tagPushes = CountOk("PushTag")

C2_Witness ==
    /\ CalledOk("CreateCommit")
    /\ Called("Push") /\ ~CalledOk("Push")
    /\ ReturnedError
    /\ repo.commits = 1

\* the calls every run that reaches the final message has made before it
CanonicalReads ==
    <<Call("NumProviders", <<>>, TRUE), Call("IsGitRepository", <<>>, TRUE),
      Call("GetRepoState", <<>>, TRUE), Call("HasConflicts", <<>>, TRUE),
      Call("UnstageAll", <<>>, TRUE),
      Call("StageFiles", <<ArgExclude, ArgInclude, ArgGlobalIgnore>>, TRUE),
      Call("GetStagedDiff", <<ArgMaxDiff>>, TRUE),
      Call("GetCurrentBranch", <<>>, TRUE),
      Call("GenerateCommitMessages", <<obs.diff, ArgBranch, obs.files>>, TRUE)>>
    \o (IF settings.Auto THEN <<>> ELSE <<Call("RenderInteractiveUI", <<>>, TRUE)>>)
    \o [i \in 1..numModules |-> Call("TransformCommitMessage", <<ModuleName(i), ArgBranch>>, TRUE)]

SameCalls(a, b) ==
    /\ Len(a) = Len(b)
    /\ \A i \in 1..Len(a) : a[i].op = b[i].op /\ a[i].args = b[i].args

\* C3: when DryRun is in effect as the message is finalized, none of
\* CreateCommit, Push, GetLatestTag, IncrementVersion, CreateTag, PushTag is
\* called, whatever Push and Tag are; the earlier steps are the same calls
\* with the same arguments as in a run that commits.
C3_DryRunSuppressesMutation ==
    obs.finalized # "unset" =>
        /\ SameCalls(ReadCalls, CanonicalReads)
        /\ (settings.DryRun =>
                /\ obs.finalized = "dry"
                /\ PostCalls = <<>>
                /\ Returned /\ ret = "nil"
                /\ repo.commits = 0 /\ repo.pushes = 0 /\ repo.tags = 0 /\ repo.tagPushes = 0)

C3_Witness ==
    /\ obs.finalized = "dry"
    /\ settings.DryRun /\ settings.Push /\ settings.Tag # ""
    /\ Returned

\* C4: StageFiles is called only after UnstageAll returned successfully in the
\* same run, so it starts from an index with nothing staged; if UnstageAll
\* fails Execute returns an error and StageFiles is never called.
C4_UnstageBeforeStage ==
    /\ \A i \in 1..Len(calls) :
          calls[i].op = "StageFiles" =>
              \E j \in 1..(i - 1) : calls[j].op = "UnstageAll" /\ calls[j].ok
    /\ (Called("StageFiles") => repo.unstaged /\ "old" \notin Range(repo.index))
    /\ (Called("UnstageAll") /\ ~CalledOk("UnstageAll") =>
            ReturnedError /\ ~Called("StageFiles"))

C4_Witness ==
    /\ CalledOk("UnstageAll")
    /\ CalledOk("StageFiles")
    /\ repo.index = <<"f1", "f2">>

NothingToCommit ==
    \/ obs.staged = "true" /\ obs.files = <<>>
    \/ obs.diffRead = "true" /\ TrimSpace(obs.diff) = <<>>

\* C5: when StageFiles returns an empty list, or GetStagedDiff a diff that is
\* empty once white space is trimmed, Execute returns nil and stops there: no
\* provider request, no commit, no push, no tag.
C5_NothingToCommitIsSuccess ==
    NothingToCommit =>
        /\ Returned /\ ret = "nil"
        /\ ~Called("GenerateCommitMessages")
        /\ PostCalls = <<>>
        /\ repo.commits = 0 /\ repo.pushes = 0 /\ repo.tags = 0 /\ repo.tagPushes = 0

C5_Witness ==
    /\ obs.diffRead = "true"
    /\ obs.diff = <<NL, SP>>
    /\ Returned

ConfigurationError == obs.config \in {"no identity", "no signing key"}

\* C6 as stated: a run that fails on a configuration error (no user.name or
\* user.email, or commit.gpgsign=true without user.signingkey) has performed
\* no UnstageAll, no StageFiles and no commit.
C6_NoMutationBeforeConfigError ==
    ConfigurationError =>
        /\ ~Called("UnstageAll")
        /\ ~Called("StageFiles")
        /\ repo.commits = 0

\* C6 as amended: a configuration error is fatal and is raised by
\* CreateCommit before any commit is created: Execute returns an error, no
\* commit, push or tag has been made and no later step is called; UnstageAll
\* and StageFiles have already run by then.
C6_ConfigErrorBeforeCommit ==
    ConfigurationError =>
        /\ ReturnedError /\ ret = "failed to create commit"
        /\ Ops(PostCalls) = <<"CreateCommit">>
        /\ repo.commits = 0 /\ repo.pushes = 0 /\ repo.tags = 0 /\ repo.tagPushes = 0
        /\ CalledOk("UnstageAll") /\ CalledOk("StageFiles")

C6_Witness ==
    /\ obs.config = "no signing key"
    /\ obs.commitErr = "commit.gpgsign=true but user.signingkey not configured"
    /\ ReturnedError

(* ================ properties of GenerateCommitMessages ================= *)
GenReturned == gpc = "returned" /\ gSelected # {}
Answered == {p \in DOMAIN gTask : gTask[p].status = "ok"}
StillRunning == {p \in DOMAIN gTask : gTask[p].status = "running"}
OwnMessages == \A p \in DOMAIN gResults : p \in gSelected /\ gResults[p] = ProviderMessage(p)

\* C7: first-result mode with a provider selected: whatever the order in which
\* the providers complete, if any of them answers with a message the mapping
\* returned has exactly one entry, keyed by a selected provider that answered
\* and holding its message; if none does the mapping is empty and the error nil.
C7_FirstModeOneEntry ==
    GenReturned /\ gFirst =>
        /\ gRet = "nil"
        /\ OwnMessages
        /\ (Answered # {} => Cardinality(DOMAIN gResults) = 1 /\ DOMAIN gResults \subseteq Answered)
        /\ (Answered = {} => gResults = NoMessages)

C7_Witness ==
    /\ GenReturned /\ gFirst
    /\ Cardinality(Answered) = 2
    /\ Cardinality(DOMAIN gResults) = 1

C9_AllModeKeepsEveryAnswer ==
    GenReturned /\ ~gFirst =>
        /\ gRet = "nil"
        /\ StillRunning = {}
        /\ DOMAIN gResults = Answered
        /\ OwnMessages

C9_Witness ==
    /\ GenReturned /\ ~gFirst
    /\ Answered = {}
    /\ \E p \in gSelected : gTask[p].status = "failed"
    /\ \E p \in gSelected : gTask[p].status = "timeout"

CancelledBeforeDispatch == \A p \in DOMAIN gTask : ~gTask[p].live

C11_NoProvidersFailsAtOnce ==
    gSelected = {} =>
        /\ gTask = NoTasks /\ gAsk = NoAsks /\ gResults = NoMessages
        /\ gpc \in {"called", "returned"}
        /\ (gpc = "returned" => gRet = "no ai providers available")

C11_Witness ==
    /\ gSelected = {}
    /\ gpc = "returned"
    /\ gRet = "no ai providers available"

(* =================== properties of the message selection ================ *)
\* the errors by which Execute reports that it has no message to commit
NoSuggestionsErrors ==
    {"no valid suggestions available for auto-commit", "no commit message provided"}

GeneratedOk == obs.generated \in {"empty", "nonempty"}

\* C12: once GenerateCommitMessages has returned a mapping, Execute ends with
\* a "no suggestions" error, and without a commit, exactly when that mapping
\* is empty, in auto mode and in interactive mode alike; with an entry in the
\* mapping no provider failure becomes an error of Execute.
C12_NoSuggestionsIffEmptyMapping ==
    Returned /\ GeneratedOk =>
        /\ (obs.generated = "empty" <=> ret \in NoSuggestionsErrors)
        /\ (obs.generated = "empty" => repo.commits = 0)
        /\ (obs.generated = "nonempty" => ret # "failed to generate suggestions")

(* ==================== properties of the transform loop ================== *)
IsTransformCall(c) == c.op = "TransformCommitMessage"
TransformCalls == SelectSeq(calls, IsTransformCall)

\* C13: the modules are called in list order with the branch and the working
\* message; after each module the working message is that module's output if
\* it reported changed = true and no error, and is what it was otherwise; a
\* module's error does not end Execute, and by the time the message is
\* finalized every module of the list has been called.
C13_TransformPipeline ==
    LET done == TransformCalls IN
    /\ \A i \in 1..Len(done) : done[i].args = <<ModuleName(i), ArgBranch>>
    /\ (pc = "modules" => Len(done) = modIdx - 1 /\ ret = "running")
    /\ (obs.finalized # "unset" => Len(done) = numModules)
    /\ (lastModule.ran =>
            commitMessage =
                IF lastModule.changed /\ ~lastModule.failed
                THEN lastModule.output ELSE lastModule.input)

\* the first module failed, the second was called all the same and changed
\* the message
C13_Witness ==
    /\ pc = "modules" /\ modIdx = 3
    /\ ~TransformCalls[1].ok /\ TransformCalls[2].ok
    /\ lastModule.input = <<"a">>
    /\ lastModule.changed /\ lastModule.output = <<SP, "a">>
    /\ commitMessage = <<SP, "a">>

(* ====================== properties of CreateCommit ====================== *)
\* the call gets as far as the signing branch: the identity is configured,
\* the worktree opens and commit.gpgsign reads as true
SigningAsked ==
    /\ fIn.raw.userName # "" /\ fIn.raw.userEmail # ""
    /\ fIn.raw.gpgSign \in {"true", "TRUE"}
    /\ ~fIn.env.worktreeErr

\* the tier the agent probe selects, and whether that tier fails
TierSelected == IF fIn.env.agent THEN "agent" ELSE "direct"
TierFails ==
    IF fIn.env.agent THEN ~fIn.env.signerOk ELSE fIn.env.keyring # "ok"

\* C14: CreateCommit with gpgSign = true: without a signing key it fails
\* before any tier is tried and creates no commit; with one, exactly one tier
\* is tried, the agent's signer if the agent probe succeeds and the keyring
\* otherwise; if that tier fails (key not listed; keyring unreadable, key not
\* found, passphrase wrong) the call returns an error, creates no commit and
\* does not try the other tier.
C14_OneSigningTier ==
    fpc = "returned" /\ SigningAsked =>
        IF fIn.raw.signingKey = ""
        THEN /\ fOut.err = "commit.gpgsign=true but user.signingkey not configured"
             /\ fOut.tried = <<>>
             /\ ~fOut.committed
        ELSE /\ fOut.tried = <<TierSelected>>
             /\ fOut.tier = TierSelected
             /\ (TierFails => fOut.err # "" /\ ~fOut.committed)
             /\ (~TierFails /\ ~fIn.env.commitErr => fOut.err = "" /\ fOut.committed)

\* the agent answers the probe but does not list the key, while the keyring
\* would have had it
C14_Witness ==
    /\ fpc = "returned" /\ SigningAsked
    /\ fIn.raw.signingKey # ""
    /\ fIn.env.agent /\ ~fIn.env.signerOk /\ fIn.env.keyring = "ok"
    /\ fOut.err = "failed to create GPG signer"
    /\ ~fOut.committed

(* ======================= properties of StageFiles ======================= *)
\* the filter as the settings state it: no global-ignore pattern and no
\* exclude pattern matches the path, and an include pattern does if any is set
PassesFilter(f) ==
    /\ ~ShouldExcludeFile(f, <<>>, fOut.global)
    /\ ~ShouldExcludeFile(f, fIn.exclude, <<>>)
    /\ (fIn.include = <<>> \/ ShouldIncludeFile(f, fIn.include))

\* C15: whatever the filter, the list StageFiles returns is the set of paths
\* it added to the index; a changed path is in it exactly if it passes the
\* filter; and the two fast paths give what the per-file path gives for the
\* same filter.
C15_StagedIffPassesFilter ==
    fpc = "returned" =>
        /\ fOut.list = fOut.added
        /\ \A f \in Changed(fIn.status) : f \in fOut.added <=> PassesFilter(f)
        /\ fOut.list =
               StageFiltered(fIn.status, fIn.exclude, fIn.include, fOut.global).list

(* ================== properties of the pattern matching ================== *)
\* C16: for a pattern P and a path F, shouldIncludeFile(F, [P]) and
\* shouldExcludeFile(F, [P], []) give the same answer, and it is true exactly
\* if P is a substring of F or of the basename of F, or glob-matches F or the
\* basename of F.
C16_IncludeExcludeAgree ==
    fpc = "returned" =>
        /\ fOut.include = fOut.exclude
        /\ fOut.include =
               (\/ Contains(fIn.file, fIn.pattern)
                \/ Contains(Base(fIn.file), fIn.pattern)
                \/ Match(fIn.pattern, fIn.file)
                \/ Match(fIn.pattern, Base(fIn.file)))

\* a pair only the glob match on the basename accepts
C16_Witness ==
    /\ fpc = "returned"
    /\ fIn.file = <<"d", SEP, "a">> /\ fIn.pattern = <<"*">>
    /\ fOut.include /\ fOut.exclude

(* ====================== properties of GetStagedDiff ===================== *)
\* every git diff this call made printed its rendering
Rendered ==
    /\ fIn.files = "some"
    /\ (fIn.fail.run = 0 \/ fIn.fail.run > Len(fOut.runs))

\* the places in the list 5, 3, 2, 1, 0 whose rendering is within the ceiling
FittingPlaces == {k \in 1..5 : fIn.size[<<5, 3, 2, 1, 0>>[k]] <= fIn.maxSizeBytes}
FirstFitting == CHOOSE k \in FittingPlaces : \A j \in FittingPlaces : k <= j

\* C17: GetStagedDiff renders the staged diff at the widths 5, 3, 2, 1, 0 in
\* that order and returns the first rendering that is within maxSizeBytes:
\* one at a smaller width is never returned when one earlier in the list fits.
C17_FirstFittingContext ==
    fpc = "returned" /\ Rendered /\ FittingPlaces # {} =>
        /\ fOut.err = ""
        /\ fOut.runs = SubSeq(<<5, 3, 2, 1, 0>>, 1, FirstFitting)
        /\ fOut.diff = Rendering(<<5, 3, 2, 1, 0>>[FirstFitting],
                                 fIn.size[<<5, 3, 2, 1, 0>>[FirstFitting]])

\* width 5 is too long, width 3 fits exactly, and so would the widths after it
C17_Witness ==
    /\ fpc = "returned" /\ Rendered
    /\ fIn.size[5] > fIn.maxSizeBytes
    /\ fIn.size[3] = fIn.maxSizeBytes /\ fIn.maxSizeBytes > 0
    /\ fIn.size[0] < fIn.maxSizeBytes
    /\ fOut.runs = <<5, 3>>
    /\ fOut.diff = Rendering(3, fIn.size[3])

\* C18: for a ceiling maxSizeBytes >= 0 the text returned is never longer
\* than the ceiling; when no rendering fits, the zero-context one included,
\* it is the first maxSizeBytes bytes of the zero-context rendering.
C18_NeverOverCeiling ==
    fpc = "returned" =>
        /\ Len(fOut.diff) <= fIn.maxSizeBytes
        /\ (Rendered /\ FittingPlaces = {} =>
                /\ fOut.err = ""
                /\ Len(fOut.diff) = fIn.maxSizeBytes
                /\ \A i \in 1..fIn.maxSizeBytes : fOut.diff[i] = <<0, i>>)

C18_Witness ==
    /\ fpc = "returned" /\ Rendered /\ FittingPlaces = {}
    /\ fIn.maxSizeBytes = 1 /\ fIn.size[0] = 3
    /\ fOut.diff = <<<<0, 1>>>>
    /\ fOut.runs = <<5, 3, 2, 1, 0, 0>>

(* ====================== properties of GetRepoState ====================== *)
\* the state of highest precedence among the markers present
HighestState(markers) ==
    IF "rebase-merge" \in markers \/ "rebase-apply" \in markers THEN "rebasing"
    ELSE IF "MERGE_HEAD" \in markers THEN "merging"
    ELSE IF "CHERRY_PICK_HEAD" \in markers THEN "cherry-picking"
    ELSE IF "REVERT_HEAD" \in markers THEN "reverting"
    ELSE IF "BISECT_LOG" \in markers THEN "bisecting"
    ELSE "normal"

\* C19: GetRepoState returns exactly one state, and whatever markers are
\* present under the git directory it is the one of highest precedence:
\* rebasing > merging > cherry-picking > reverting > bisecting > normal, and
\* normal only when no marker is present. Stated for the calls that return a
\* state from a git directory that can be read.
C19_HighestPrecedenceState ==
    fpc = "returned" /\ fOut.err = "" /\ fIn.readable =>
        /\ fOut.state \in RepoStates
        /\ fOut.state = HighestState(fIn.markers)
        /\ (fOut.state = RepoStateNormal <=> fIn.markers = {})

\* C20: whenever the git directory cannot be read GetRepoState returns an
\* error and not a state.
C20_UnreadableIsError ==
    fpc = "returned" /\ (~fIn.readable \/ fIn.dotGit = "file unreadable") =>
        fOut.err # ""

(* ====================== properties of HasConflicts ====================== *)
\* the files of the status lines that carry an unmerged code, in order
RECURSIVE UnmergedFiles(_)
UnmergedFiles(statusLines) ==
    IF statusLines = <<>> THEN <<>>
    ELSE LET line == Head(statusLines) IN
         (IF SubSeq(line, 1, 2) \in
                {<<"U", "U">>, <<"A", "A">>, <<"D", "D">>, <<"A", "U">>, <<"U", "A">>,
                 <<"D", "U">>, <<"U", "D">>}
          THEN <<SubSeq(line, 4, Len(line))>> ELSE <<>>) \o UnmergedFiles(Tail(statusLines))

FellBack == ~fIn.worktreeErr /\ fIn.diffFails

\* C21: a failing git diff alone never makes HasConflicts fail: it then reads
\* git status, whose answer holds a file iff its two-letter code is one of
\* UU, AA, DD, AU, UA, DU, UD; and HasConflicts says true iff the list it
\* returns is not empty.
C21_FallbackOnDiffFailure ==
    fpc = "returned" =>
        /\ fOut.has <=> fOut.files # <<>>
        /\ FellBack /\ ~fIn.statusWorktreeErr /\ ~fIn.statusFails =>
               fOut.err = "" /\ fOut.files = UnmergedFiles(fIn.statusLines)
        /\ fOut.err # "" =>
               \/ fIn.worktreeErr
               \/ fIn.diffFails /\ (fIn.statusWorktreeErr \/ fIn.statusFails)

C21_Witness ==
    /\ fpc = "returned"
    /\ FellBack
    /\ fIn.statusLines = <<StatusLine(<<SP, "M">>, <<"a">>), StatusLine(<<"D", "D">>, <<"b">>)>>
    /\ fOut = ConflictResult(TRUE, <<<<"b">>>>, "")

(* ============ properties of parseSemVer and IncrementVersion ============ *)
\* a non-negative integer written in decimal
IsNumeral(part) == part # <<>> /\ \A i \in 1..Len(part) : IsDigit(part[i])

\* three dot-separated non-negative integers
ThreeNumbers(s) ==
    LET parts == SplitDots(s) IN Len(parts) = 3 /\ \A i \in 1..3 : IsNumeral(parts[i])

\* a tag of three dot-separated non-negative integers after an optional v
WellFormedTag(tag) == ThreeNumbers(tag) \/ (HasPrefix(tag, <<"v">>) /\ ThreeNumbers(Tail(tag)))

\* the numbers a well-formed tag is written with
TagNumbers(tag) ==
    LET parts == SplitDots(IF HasPrefix(tag, <<"v">>) THEN Tail(tag) ELSE tag) IN
    [i \in 1..3 |-> Decimal(parts[i])]

\* a numeral without leading zero that fits an int
Canonical(part) ==
    IsNumeral(part) /\ (Len(part) = 1 \/ Head(part) # "0") /\ Decimal(part) <= IntMax

CanonicalTag(tag) ==
    /\ HasPrefix(tag, <<"v">>)
    /\ LET parts == SplitDots(Tail(tag)) IN Len(parts) = 3 /\ \A i \in 1..3 : Canonical(parts[i])

VersionText(major, minor, patch) ==
    <<"v">> \o NatDigits(major) \o <<".">> \o NatDigits(minor) \o <<".">> \o NatDigits(patch)

\* the tag the increment of (M, m, p) by a known kind is to give
Incremented(n, kind) ==
    IF kind = <<"m", "a", "j", "o", "r">> THEN VersionText(n[1] + 1, 0, 0)
    ELSE IF kind = <<"m", "i", "n", "o", "r">> THEN VersionText(n[1], n[2] + 1, 0)
    ELSE VersionText(n[1], n[2], n[3] + 1)

\* C22: IncrementVersion(tag, kind), the kind compared without regard to
\* case and (M, m, p) the numbers of the tag, or (0, 0, 0) for an empty tag and
\* for one that is not three numbers: major gives v(M+1).0.0, minor gives
\* vM.(m+1).0, patch gives vM.m.(p+1), and any other kind gives an error and
\* no version. Stated for the tags whose numbers stay below the largest int.
C22_IncrementVersion ==
    fpc = "returned" =>
        LET kind == ToLowerChars(fIn.kind)
            n == IF WellFormedTag(fIn.tag) THEN TagNumbers(fIn.tag) ELSE <<0, 0, 0>>
        IN  IF kind \in {<<"m", "a", "j", "o", "r">>, <<"m", "i", "n", "o", "r">>, <<"p", "a", "t", "c", "h">>}
            THEN (\A i \in 1..3 : n[i] < IntMax) =>
                     fOut.err = "" /\ fOut.tag = Incremented(n, kind)
            ELSE fOut.err # "" /\ fOut.tag = <<>>

\* C23 as stated: every tag v<M>.<m>.<p> of non-negative integers is given
\* back by formatting what parseSemVer makes of it.
C23_RoundTripEveryTag ==
    fpc = "returned" /\ HasPrefix(fIn, <<"v">>) /\ ThreeNumbers(Tail(fIn)) =>
        FormatSemVer(fOut) = fIn

\* C23: every tag v<M>.<m>.<p> whose numbers are written without sign or
\* leading zero and fit an int is given back by formatting what parseSemVer
\* makes of it.
C23_RoundTripCanonical ==
    fpc = "returned" /\ CanonicalTag(fIn) => FormatSemVer(fOut) = fIn

C23_Witness ==
    /\ fpc = "returned"
    /\ fIn = <<"v", "1", "0", ".", "0", ".", "1">>
    /\ fOut = semVer(10, 0, 1)
    /\ FormatSemVer(fOut) = fIn

\* C24: parseSemVer gives {0, 0, 0} for every string that is not three
\* dot-separated non-negative integers after an optional v.
C24_MalformedParsesToZero ==
    fpc = "returned" /\ ~WellFormedTag(fIn) => fOut = semVer(0, 0, 0)

(* ================= properties of generateMergeRequestURL ================ *)
NoDistinctTarget == fIn.targetBranch = <<>> \/ fIn.targetBranch = fIn.branch

NoURLCase == fIn.info = NilInfo \/ fIn.branch = <<>> \/ fIn.info.Platform = PlatformUnknown

\* the URL the claim describes, with the branch names written as b and t
ExpectedURL(b, t) ==
    IF NoURLCase THEN fOut.url = <<>>
    ELSE IF fIn.info.Platform = PlatformGitHub
        THEN fOut.url =
                 IF NoDistinctTarget THEN RepoURL(fIn.info) \o <<"/pull/new/">> \o b
                 ELSE RepoURL(fIn.info) \o <<"/compare/">> \o t \o <<"...">> \o b
                      \o <<"?expand=1">>
    ELSE /\ HasPrefix(fOut.url, RepoURL(fIn.info) \o <<"/-/merge_requests/new", "?">>)
         /\ Contains(fOut.url, <<"source_branch">>)
         /\ Contains(fOut.url, <<"target_branch">>) <=> ~NoDistinctTarget

\* a branch name as it is to stand in a URL: a slash written %2F
RECURSIVE EscapedName(_)
EscapedName(name) ==
    IF name = <<>> THEN <<>>
    ELSE (IF Head(name) = "/" THEN <<"%", "2", "F">> ELSE <<Head(name)>>)
         \o EscapedName(Tail(name))

\* C26 as stated: the GitHub URLs end in the branch names themselves.
C26_URLWithBranchNames ==
    fpc = "returned" => ExpectedURL(fIn.branch, fIn.targetBranch)

\* C26: for GitHub the URL is https://<host>/<owner>/<repo>/pull/new/<branch>
\* when the target is empty or the branch itself, and
\* .../compare/<target>...<branch>?expand=1 otherwise, the branch names
\* query-escaped; for GitLab it is the merge_requests/new URL with the source
\* branch always set and the target branch set only when it is not empty and
\* differs from the branch; it is empty when info is nil, the branch is empty
\* or the platform is unknown.
C26_URLWithEscapedBranchNames ==
    fpc = "returned" => ExpectedURL(EscapedName(fIn.branch), EscapedName(fIn.targetBranch))

C26_Witness ==
    /\ fpc = "returned"
    /\ fIn.info = RemoteInfo(PlatformGitHub, <<"host">>, <<"owner">>, <<"repo">>)
    /\ fIn.branch = <<"feature", "/", "x">>
    /\ fIn.targetBranch = <<"main">>
    /\ fOut.url = <<"https://", "host", "/", "owner", "/", "repo", "/compare/", "main", "...",
                    "feature", "%", "2", "F", "x", "?expand=1">>

(* =========================== properties of Push ========================= *)
\* the default branch of the remote: what the symbolic ref names, master when
\* the probe fails
RemoteDefaultBranch ==
    IF fIn.symbolicRef \in {<<"failed">>, <<"refs/heads/", "main", NL>>} THEN <<"master">>
    ELSE <<fIn.symbolicRef[2]>>

RemoteUnreadable == fIn.remote.form \in {"none", "no URLs"}

RemoteUnparseable ==
    \/ fIn.remote.form \in {"empty", "unsupported"}
    \/ fIn.remote.form \in {"https", "ssh"} /\ Len(fIn.remote.path) < 2

KnownPlatform ==
    /\ ~RemoteUnreadable /\ ~RemoteUnparseable
    /\ \E w \in {"github", "GitHub", "gitlab", "GITLAB"} :
           \E i \in 1..Len(fIn.remote.host) : fIn.remote.host[i] = w

\* C25: Push pushes the current branch to origin; a failed push returns an
\* error and no URL; a push that succeeded returns no error, and a URL only
\* when the branch differs from the remote's default branch (master when the
\* symbolic ref cannot be read) and the origin URL is that of a known
\* platform; it returns no URL when the remote URL cannot be read or parsed.
C25_PushOutcome ==
    fpc = "returned" /\ ~fIn.headErr =>
        /\ fIn.pushFails => fOut.err # "" /\ fOut.url = <<>>
        /\ ~fIn.pushFails =>
               /\ fOut.pushed = fIn.branch
               /\ fOut.err = ""
               /\ fOut.url # <<>> => fIn.branch # RemoteDefaultBranch /\ KnownPlatform
               /\ RemoteUnreadable \/ RemoteUnparseable => fOut.url = <<>>

C25_Witness ==
    /\ fpc = "returned"
    /\ ~fIn.headErr /\ ~fIn.pushFails
    /\ fIn.branch = <<"dev">> /\ fIn.symbolicRef = <<"failed">>
    /\ fOut.err = ""
    /\ fOut.url = <<"https://", "github", ".com", "/", "owner", "/", "repo", "/compare/", "master",
                    "...", "dev", "?expand=1">>

(* ============ properties of JIRATaskDetector.TransformCommitMessage ===== *)
\* the issue IDs of the branches that carry one
IssueOf(branch) ==
    IF branch \in {<<"A", "-", "1">>, <<"A", "-", "1", "-", "x">>,
                   <<"feature", "/", "A", "-", "1", "-", "x">>} THEN <<"A", "-", "1">>
    ELSE IF branch = <<"user", "/", "B", "-", "2">> THEN <<"B", "-", "2">>
    ELSE <<>>

\* the place of the first newline, one past the end if there is none
FirstNewline(s) ==
    LET nls == {i \in 1..Len(s) : s[i] = NL} IN
    IF nls = {} THEN Len(s) + 1 ELSE CHOOSE i \in nls : \A j \in nls : i <= j

FirstLineOf(s) == SubSeq(s, 1, FirstNewline(s) - 1)
FromFirstNewline(s) == SubSeq(s, FirstNewline(s), Len(s))

\* whether long is short with one run of elements put in
InsertedInto(short, long) ==
    \E i \in 0..Len(short) :
        /\ SubSeq(long, 1, i) = SubSeq(short, 1, i)
        /\ SubSeq(long, Len(long) - (Len(short) - i) + 1, Len(long))
               = SubSeq(short, i + 1, Len(short))

\* C27: with position prefix, infix or suffix and a branch that carries an
\* issue ID, a message that holds the ID anywhere comes back as it is; any
\* other message comes back with the ID put into its first line and with
\* everything from the first newline on as it was.
C27_OnlyFirstLineRewritten ==
    fpc = "returned" /\ fIn.position \in {"prefix", "infix", "suffix"}
                     /\ IssueOf(fIn.branch) # <<>> =>
        IF \E i \in 0..(Len(fIn.message) - Len(IssueOf(fIn.branch))) :
               SubSeq(fIn.message, i + 1, i + Len(IssueOf(fIn.branch))) = IssueOf(fIn.branch)
        THEN fOut.message = fIn.message
        ELSE /\ FromFirstNewline(fOut.message) = FromFirstNewline(fIn.message)
             /\ FirstLineOf(fOut.message) # FirstLineOf(fIn.message)
             /\ InsertedInto(FirstLineOf(fIn.message), FirstLineOf(fOut.message))
             /\ \E i \in 0..(Len(FirstLineOf(fOut.message)) - Len(IssueOf(fIn.branch))) :
                    SubSeq(FirstLineOf(fOut.message), i + 1, i + Len(IssueOf(fIn.branch)))
                        = IssueOf(fIn.branch)

C27_Witness ==
    /\ fpc = "returned"
    /\ fIn.position = "infix" /\ fIn.style = "brackets"
    /\ fIn.branch = <<"feature", "/", "A", "-", "1", "-", "x">>
    /\ fIn.message = <<"feat", ":", SP, "x", NL, NL, "b", ":", SP, "c", NL>>
    /\ fOut.message = <<"feat", ":", SP, "[", "A", "-", "1", "]", SP, "x", NL, NL, "b", ":", SP,
                        "c", NL>>

(* ===================== properties of FilterProviders ==================== *)
\* the spellings of one name
Spellings == {{"openai", "OpenAI"}, {"claude", "CLAUDE"}, {"Gemini"}, {"nonexistent"}}

SameIgnoringCase(a, b) == \E names \in Spellings : a \in names /\ b \in names

\* C28: FilterProviders gives every configured provider for an empty
\* request, and otherwise exactly the configured providers whose name is,
\* case ignored, one of the requested names; a requested name that no
\* configured provider bears is dropped, so the result is a subset of the
\* configured set.
C28_FilterProviders ==
    fpc = "returned" =>
        /\ fOut.providers \subseteq fIn.configured
        /\ fIn.requested = <<>> => fOut.providers = fIn.configured
        /\ fIn.requested # <<>> =>
               fOut.providers =
                   {p \in fIn.configured :
                       \E i \in 1..Len(fIn.requested) : SameIgnoringCase(p, fIn.requested[i])}

C28_Witness ==
    /\ fpc = "returned"
    /\ fIn.configured = {"openai", "claude", "Gemini"}
    /\ fIn.requested = <<"OpenAI", "nonexistent">>
    /\ fOut.providers = {"openai"}

(* ============== liveness of GenerateCommitMessages ====================== *)
\* C29: every call of GenerateCommitMessages returns in the end: each task
\* ends by success, failure, the shared timeout or cancellation, so a provider
\* that never answers does not keep the call, in either mode, from returning
\* once the deadline has passed.
C29_EveryCallReturns == <>(gpc = "returned")

C29_Witness ==
    /\ gpc = "returned"
    /\ gDeadline = "expired"
    /\ \E p \in gSelected : gTask[p].status = "timeout"

(* ================= properties of the committed message ================== *)
\* the message a call of CreateCommit or CreateTag was handed
MessageOf(call) == IF call.op = "CreateCommit" THEN call.args[1] ELSE call.args[2]

\* C30: Execute never hands CreateCommit or CreateTag an empty message:
\* whatever message was selected and whatever the modules made of it, the
\* message that is left after the trimming is not empty.
C30_NoEmptyMessageCommitted ==
    \A i \in 1..Len(calls) :
        calls[i].op \in {"CreateCommit", "CreateTag"} => MessageOf(calls[i]) # <<>>

====
